---------------------------- MODULE Spec2Model ----------------------------
(***************************************************************************)
(* Model of the MPI passthrough path of the mpi3mr driver                  *)
(* (drivers/scsi/mpi3mr/mpi3mr_app.c): mpi3mr_ioctl_process_mpt_cmds and   *)
(* the builders it calls, together with the command slot ioctl_cmds that   *)
(* serialises passthrough commands of one adapter.                         *)
(*                                                                         *)
(* Each invocation of mpi3mr_ioctl_process_mpt_cmds is a process p whose   *)
(* position in the function is pc[p].  Code that touches only the          *)
(* invocation's own locals is one step; every access to the shared slot,   *)
(* the mutex, or the adapter flags is a step of its own.                   *)
(***************************************************************************)
EXTENDS Integers, Sequences, FiniteSets, TLC

(***************************************************************************)
(* Bounds of the model.                                                    *)
(***************************************************************************)
NumProcs == 2
MaxExtResets == 1

Procs == 1..NumProcs

(***************************************************************************)
(* Program constants.  MPI3MR_ADMIN_REQ_FRAME_SZ, the size of struct       *)
(* mpi3_sge_common, MPI3MR_SENSE_BUF_SZ and the header of struct           *)
(* mpi3mr_ioctl_reply_buf come from headers of the driver; the values are  *)
(* the ones the driver's headers give them.                                *)
(***************************************************************************)
MPI3MR_ADMIN_REQ_FRAME_SZ == 128
SGE_COMMON_SZ == 16
MPI3MR_SENSE_BUF_SZ == 252
REPLY_BUF_HDR_SZ == 4
NO_OFFSET == 255

(* errno values returned by the handler, by name; "OK" is 0 *)
Errnos == {"OK", "EFAULT", "ENODEV", "EINVAL", "ENOMEM", "EAGAIN", "ERESTARTSYS"}

(* enum dma_data_direction *)
DMA_BIDIRECTIONAL == "DMA_BIDIRECTIONAL"
DMA_TO_DEVICE == "DMA_TO_DEVICE"
DMA_FROM_DEVICE == "DMA_FROM_DEVICE"

(* buffer type tags of struct mpi3mr_buf_entry; BUFTYPE_UNKNOWN stands for
   every tag the switch does not name *)
BUFTYPE_RAIDMGMT_CMD == "RAIDMGMT_CMD"
BUFTYPE_RAIDMGMT_RESP == "RAIDMGMT_RESP"
BUFTYPE_DATA_IN == "DATA_IN"
BUFTYPE_DATA_OUT == "DATA_OUT"
BUFTYPE_MPI_REPLY == "MPI_REPLY"
BUFTYPE_ERR_RESPONSE == "ERR_RESPONSE"
BUFTYPE_UNKNOWN == "UNKNOWN"

BufTypes ==
  {BUFTYPE_RAIDMGMT_CMD, BUFTYPE_RAIDMGMT_RESP, BUFTYPE_DATA_IN, BUFTYPE_DATA_OUT,
   BUFTYPE_MPI_REPLY, BUFTYPE_ERR_RESPONSE, BUFTYPE_UNKNOWN}

(* a < b for two u32 values; a u32 is held as the int with the same 32
   bits, so the values from 2^31 up are the negative ints *)
ULess(a, b) == IF (a < 0) = (b < 0) THEN a < b ELSE b < 0

(* min() of two u32 values *)
Min(a, b) == IF ULess(a, b) THEN a ELSE b

(***************************************************************************)
(* The classification loop of mpi3mr_ioctl_process_mpt_cmds.               *)
(* entries is the caller's buffer list, a sequence of                      *)
(* [buf_type, buf_len]; count is the 0-based loop index of the code.       *)
(* The result carries the locals the loop sets and the dma_buffers array   *)
(* (zero-initialised by kzalloc: data_dir 0 is DMA_BIDIRECTIONAL).         *)
(***************************************************************************)
NullAddr == [hi |-> 0, lo |-> 0]

ZeroBufMap ==
  [user_buf_len |-> 0, data_dir |-> DMA_BIDIRECTIONAL, kern_buf_len |-> 0,
   kern_buf |-> 0, kern_buf_dma |-> NullAddr, filled |-> 0]

ClassifyInit(entries) ==
  [is_rmcb |-> FALSE, is_rmrb |-> FALSE, din_cnt |-> 0, dout_cnt |-> 0,
   erb_offset |-> NO_OFFSET, reply_offset |-> NO_OFFSET, invalid_be |-> FALSE,
   dma_buffers |-> [i \in 1..Len(entries) |-> ZeroBufMap]]

(* Variant of RespInvalid that tests the position alone. *)
RespInvalid_PositionOnly(c, count) == count # 1

(* the test "count != 1 || !is_rmcb" of the RAIDMGMT_RESP case *)
RespInvalid(c, count) == count # 1 \/ ~c.is_rmcb

(* Variant of CmdInvalid that accepts RAIDMGMT_CMD at any index. *)
CmdInvalid_AnyIndex(count) == FALSE

(* the test "count != 0" of the RAIDMGMT_CMD case *)
CmdInvalid(count) == count # 0

ClassifyEntry(c, count, e) ==
  LET rmcb == c.is_rmcb \/ e.buf_type = BUFTYPE_RAIDMGMT_CMD
      din == IF e.buf_type = BUFTYPE_DATA_IN THEN c.din_cnt + 1 ELSE c.din_cnt
      dout == IF e.buf_type = BUFTYPE_DATA_OUT THEN c.dout_cnt + 1 ELSE c.dout_cnt
      dir == CASE e.buf_type = BUFTYPE_RAIDMGMT_CMD -> DMA_FROM_DEVICE
               [] e.buf_type = BUFTYPE_RAIDMGMT_RESP -> DMA_TO_DEVICE
               [] e.buf_type = BUFTYPE_DATA_IN -> DMA_TO_DEVICE
               [] e.buf_type = BUFTYPE_DATA_OUT -> DMA_FROM_DEVICE
               [] OTHER -> DMA_BIDIRECTIONAL
      bad == CASE e.buf_type = BUFTYPE_RAIDMGMT_CMD -> CmdInvalid(count)
               [] e.buf_type = BUFTYPE_RAIDMGMT_RESP -> RespInvalid(c, count)
               [] e.buf_type = BUFTYPE_DATA_IN -> din > 1 /\ ~c.is_rmcb
               [] e.buf_type = BUFTYPE_DATA_OUT -> dout > 1 /\ ~c.is_rmcb
               [] e.buf_type = BUFTYPE_MPI_REPLY -> FALSE
               [] e.buf_type = BUFTYPE_ERR_RESPONSE -> FALSE
               [] OTHER -> TRUE
  IN [is_rmcb |-> rmcb,
      is_rmrb |-> c.is_rmrb \/ e.buf_type = BUFTYPE_RAIDMGMT_RESP,
      din_cnt |-> din,
      dout_cnt |-> dout,
      erb_offset |-> IF e.buf_type = BUFTYPE_ERR_RESPONSE THEN count ELSE c.erb_offset,
      reply_offset |-> IF e.buf_type = BUFTYPE_MPI_REPLY THEN count ELSE c.reply_offset,
      invalid_be |-> c.invalid_be \/ bad,
      dma_buffers |-> [c.dma_buffers EXCEPT ![count + 1] =
                         [@ EXCEPT !.user_buf_len = e.buf_len, !.data_dir = dir]]]

RECURSIVE ClassifyFrom(_, _, _)
ClassifyFrom(c, count, entries) ==
  IF count >= Len(entries) \/ c.invalid_be
    THEN c
    ELSE ClassifyFrom(ClassifyEntry(c, count, entries[count + 1]), count + 1, entries)

Classify(entries) == ClassifyFrom(ClassifyInit(entries), 0, entries)

(* the frame-capacity check that follows the loop *)
FrameTooSmall(c, mpi_msg_size) ==
  /\ ~c.is_rmcb
  /\ c.dout_cnt + c.din_cnt > 0
  /\ mpi_msg_size * 4 + (c.dout_cnt + c.din_cnt) * SGE_COMMON_SZ
       > MPI3MR_ADMIN_REQ_FRAME_SZ


(***************************************************************************)
(* The allocation loop of mpi3mr_ioctl_process_mpt_cmds.                   *)
(* c holds the classification locals, bufs the dma_buffers array.          *)
(* fault = [at, kind] names the loop index at which dma_alloc_coherent     *)
(* returns NULL (kind "alloc") or copy_from_user fails (kind "copy");      *)
(* at = -1 when neither fails.  base is the bus address the allocator      *)
(* hands out for index 0; a DMA address is [hi, lo], its upper and lower   *)
(* 32 bits.                                                                *)
(***************************************************************************)
DmaStride == 4 * 64

DmaAddrOf(base, count) == [hi |-> base.hi, lo |-> base.lo + count * DmaStride]

KernBufLen(c, bufs, count) ==
  IF count = c.reply_offset \/ count = c.erb_offset
    THEN 0
    ELSE bufs[count + 1].user_buf_len
           + (IF c.is_rmcb /\ count = 0
                THEN (c.dout_cnt + c.din_cnt) * SGE_COMMON_SZ ELSE 0)

(* Variant of NeedsCopyIn that takes the buffers of the other direction. *)
NeedsCopyIn_ToDevice(buf) == buf.data_dir = DMA_TO_DEVICE

(* the buffers the allocation loop fills from the caller's memory; filled is
   the number of bytes copy_from_user put into kern_buf *)
NeedsCopyIn(buf) == buf.data_dir = DMA_FROM_DEVICE

RECURSIVE AllocFrom(_, _, _, _, _)
AllocFrom(c, bufs, count, fault, base) ==
  IF count >= Len(bufs)
    THEN [dma_buffers |-> bufs, rval |-> "OK"]
    ELSE
      LET klen == KernBufLen(c, bufs, count)
          sized == [bufs EXCEPT ![count + 1].kern_buf_len = klen]
          mapped == [sized EXCEPT ![count + 1].kern_buf = 1,
                                  ![count + 1].kern_buf_dma = DmaAddrOf(base, count)]
          tmplen == Min(klen, bufs[count + 1].user_buf_len)
          copied == IF NeedsCopyIn(bufs[count + 1])
                      THEN [mapped EXCEPT ![count + 1].filled = tmplen]
                      ELSE mapped
      IN IF klen = 0
           THEN AllocFrom(c, sized, count + 1, fault, base)
           ELSE IF fault.at = count /\ fault.kind = "alloc"
             THEN [dma_buffers |-> sized, rval |-> "ENOMEM"]
             ELSE IF /\ fault.at = count /\ fault.kind = "copy"
                     /\ NeedsCopyIn(bufs[count + 1]) /\ tmplen # 0
               THEN [dma_buffers |-> mapped, rval |-> "EFAULT"]
               ELSE AllocFrom(c, copied, count + 1, fault, base)

AllocBuffers(c, fault, base) == AllocFrom(c, c.dma_buffers, 0, fault, base)

(* the faults that can happen for a classified list: none, or one at an
   index that reaches dma_alloc_coherent *)
NoFault == [at |-> -1, kind |-> "none"]

AllocFaults(c) ==
  {NoFault} \cup
  {[at |-> i, kind |-> "alloc"] :
     i \in {j \in 0..(Len(c.dma_buffers) - 1) : KernBufLen(c, c.dma_buffers, j) # 0}}
  \cup
  {[at |-> i, kind |-> "copy"] :
     i \in {j \in 0..(Len(c.dma_buffers) - 1) :
              /\ KernBufLen(c, c.dma_buffers, j) # 0
              /\ NeedsCopyIn(c.dma_buffers[j + 1])
              /\ c.dma_buffers[j + 1].user_buf_len # 0}}

(***************************************************************************)
(* mpi3mr_ioctl_build_sgl.  The result is the sequence of the elements it  *)
(* writes, each with                                                       *)
(*   field    "command_sgl" or "response_sgl" (a member of the request     *)
(*            frame) or "sgl" (written through the local sgl)              *)
(*   base     for "sgl": "frame" (mpi_req) or "cmd" (kern_buf of buffer 0) *)
(*   off      for "sgl": the byte offset of the element from its base      *)
(*   kind     "single" (mpi3mr_add_sg_single) or "zero_len"                *)
(*            (mpi3mr_build_zero_len_sge)                                  *)
(*   flags, length, address   the arguments of mpi3mr_add_sg_single        *)
(***************************************************************************)
MPI3_SGE_FLAGS_END_OF_LIST == "END_OF_LIST"

SglFlags == {"ELEMENT_TYPE_SIMPLE", "DLAS_SYSTEM", "END_OF_BUFFER"}

SglFlagsLast == SglFlags \cup {MPI3_SGE_FLAGS_END_OF_LIST}

SgeSingle(field, base, off, flags, buf) ==
  [field |-> field, base |-> base, off |-> off, kind |-> "single", flags |-> flags,
   length |-> buf.kern_buf_len, address |-> buf.kern_buf_dma]

SgeZeroLen(field, base, off) ==
  [field |-> field, base |-> base, off |-> off, kind |-> "zero_len", flags |-> {},
   length |-> 0, address |-> NullAddr]

(* Variant of SgeFlagsFor that gives the end-of-list flags to the last
   remaining element only. *)
SgeFlagsFor_LastOnly(num_datasges, is_rmc) ==
  IF num_datasges = 1 THEN SglFlagsLast ELSE SglFlags

(* the flags of a data element: "num_datasges == 1 || !is_rmc" *)
SgeFlagsFor(num_datasges, is_rmc) ==
  IF num_datasges = 1 \/ ~is_rmc THEN SglFlagsLast ELSE SglFlags

(* the loop over the remaining buffers; num_datasges is a u8 *)
RECURSIVE BuildSglFrom(_, _, _, _, _, _, _)
BuildSglFrom(bufs, count, is_rmc, base, off, num_datasges, acc) ==
  IF count >= Len(bufs) THEN acc
  ELSE IF bufs[count + 1].data_dir = DMA_BIDIRECTIONAL
    THEN BuildSglFrom(bufs, count + 1, is_rmc, base, off, num_datasges, acc)
    ELSE BuildSglFrom(bufs, count + 1, is_rmc, base, off + SGE_COMMON_SZ,
                      (num_datasges + 255) % 256,
                      Append(acc, SgeSingle("sgl", base, off,
                                            SgeFlagsFor(num_datasges, is_rmc),
                                            bufs[count + 1])))

IoctlBuildSgl(sgl_offset, bufs, is_rmc, is_rmr, num_datasges) ==
  LET head == IF ~is_rmc THEN << >>
              ELSE <<SgeSingle("command_sgl", "frame", 0, SglFlagsLast, bufs[1]),
                     IF is_rmr
                       THEN SgeSingle("response_sgl", "frame", 0, SglFlagsLast, bufs[2])
                       ELSE SgeZeroLen("response_sgl", "frame", 0)>>
      base == IF is_rmc THEN "cmd" ELSE "frame"
      off == IF is_rmc THEN bufs[1].user_buf_len ELSE sgl_offset
      count == IF ~is_rmc THEN 0 ELSE IF is_rmr THEN 2 ELSE 1
  IN IF num_datasges = 0
       THEN Append(head, SgeZeroLen("sgl", base, off))
       ELSE BuildSglFrom(bufs, count, is_rmc, base, off, num_datasges, head)


(***************************************************************************)
(* Bit operations on the upper 32 bits of an address (naturals).           *)
(***************************************************************************)
RECURSIVE BitAnd(_, _)
BitAnd(a, b) ==
  IF a = 0 \/ b = 0 THEN 0
  ELSE (IF a % 2 = 1 /\ b % 2 = 1 THEN 1 ELSE 0) + 2 * BitAnd(a \div 2, b \div 2)

RECURSIVE BitOr(_, _)
BitOr(a, b) ==
  IF a = 0 THEN b
  ELSE IF b = 0 THEN a
  ELSE (IF a % 2 = 1 \/ b % 2 = 1 THEN 1 ELSE 0) + 2 * BitOr(a \div 2, b \div 2)

(* a AND NOT b *)
RECURSIVE BitClear(_, _)
BitClear(a, b) ==
  IF a = 0 THEN 0
  ELSE (IF a % 2 = 1 /\ b % 2 = 0 THEN 1 ELSE 0) + 2 * BitClear(a \div 2, b \div 2)

RECURSIVE Pow2(_)
Pow2(n) == IF n = 0 THEN 1 ELSE 2 * Pow2(n - 1)

(* ((u64)(x << shift)) << 32, as the upper 32 bits of the 64-bit result *)
SgeModHi(x, shift) == x * Pow2(shift)

(* Variant of Stamp that clears the mask and leaves the value out. *)
Stamp_MaskOnly(addr, facts) ==
  [hi |-> BitClear(addr.hi, SgeModHi(facts.sge_mod_mask, facts.sge_mod_shift)),
   lo |-> addr.lo]

(* the overlay "entry &= ~sgemod_mask; entry |= sgemod_val" *)
Stamp(addr, facts) ==
  [hi |-> BitOr(BitClear(addr.hi, SgeModHi(facts.sge_mod_mask, facts.sge_mod_shift)),
                SgeModHi(facts.sge_mod_value, facts.sge_mod_shift)),
   lo |-> addr.lo]

(* "addr & sgemod_mask" is non-zero *)
Collides(addr, facts) ==
  BitAnd(addr.hi, SgeModHi(facts.sge_mod_mask, facts.sge_mod_shift)) # 0


(***************************************************************************)
(* mpi3mr_build_nvme_prp.                                                  *)
(*                                                                         *)
(* The first buffer whose direction is TO_DEVICE or FROM_DEVICE gives      *)
(* dma_addr and length (length stays 0 when there is none, or when that    *)
(* buffer's kern_buf_len is 0).                                            *)
(***************************************************************************)
MPI3MR_NVME_PRP_SIZE == 8

IsDataDir(b) == b.data_dir = DMA_TO_DEVICE \/ b.data_dir = DMA_FROM_DEVICE

FirstDataBuf(bufs) ==
  LET idx == {i \in 1..Len(bufs) : IsDataDir(bufs[i])}
  IN IF idx = {} THEN 0 ELSE CHOOSE i \in idx : \A j \in idx : i <= j

(***************************************************************************)
(* One pass of the "while (length)" loop.  w is the walk:                  *)
(*   length, dma_addr       the locals of the code                         *)
(*   prp_entry              "prp1", "prp2" or "list" (a pointer into the   *)
(*                          scratch region, at entry number list_idx)      *)
(*   prp_entry_dma          the byte offset of the local prp_entry_dma     *)
(*                          from prp_page_dma                              *)
(*   prp1, prp2, list       what has been written to the two inline slots  *)
(*                          and to the scratch region, entry by entry      *)
(*   status                 "run", "ok" (loop left, return 0) or "err"     *)
(*                          (goto err_out)                                 *)
(* env = [dev_pgsz, prp_page_dma, facts].                                  *)
(***************************************************************************)
(* Variant of PrpAdvance that leaves length where it is. *)
PrpAdvance_KeepLength(w, env) ==
  LET offset == w.dma_addr.lo % env.dev_pgsz
      entry_len == env.dev_pgsz - offset
  IN [w EXCEPT !.dma_addr = [hi |-> w.dma_addr.hi, lo |-> w.dma_addr.lo + entry_len]]

(* Variant of PrpAdvance that leaves dma_addr where it is. *)
PrpAdvance_NoBump(w, env) ==
  LET offset == w.dma_addr.lo % env.dev_pgsz
      entry_len == env.dev_pgsz - offset
      left == IF entry_len > w.length THEN 0 ELSE w.length - entry_len
  IN [w EXCEPT !.length = left,
               !.status = IF left = 0 THEN "ok" ELSE "run"]

PrpAdvance(w, env) ==
  LET offset == w.dma_addr.lo % env.dev_pgsz
      entry_len == env.dev_pgsz - offset
      left == IF entry_len > w.length THEN 0 ELSE w.length - entry_len
  IN [w EXCEPT !.dma_addr = [hi |-> w.dma_addr.hi, lo |-> w.dma_addr.lo + entry_len],
               !.length = left,
               !.status = IF left = 0 THEN "ok" ELSE "run"]

PrpStep(w, env) ==
  LET page_mask_result ==
        (env.prp_page_dma.lo + w.prp_entry_dma + MPI3MR_NVME_PRP_SIZE) % env.dev_pgsz
      list_ptr == [hi |-> env.prp_page_dma.hi,
                   lo |-> env.prp_page_dma.lo + w.prp_entry_dma]
  IN IF page_mask_result = 0 /\ w.length > env.dev_pgsz
       THEN [w EXCEPT !.status = "err"]
     ELSE IF w.prp_entry = "prp1"
       THEN IF Collides(w.dma_addr, env.facts)
              THEN [w EXCEPT !.prp1 = w.dma_addr, !.status = "err"]
              ELSE PrpAdvance([w EXCEPT !.prp1 = Stamp(w.dma_addr, env.facts),
                                        !.prp_entry = "prp2"], env)
     ELSE IF w.prp_entry = "prp2"
       THEN IF w.length > env.dev_pgsz
              THEN IF Collides(list_ptr, env.facts)
                     THEN [w EXCEPT !.prp2 = list_ptr, !.status = "err"]
                     ELSE [w EXCEPT !.prp2 = Stamp(list_ptr, env.facts),
                                    !.prp2_is_list = TRUE,
                                    !.prp_entry = "list"]
              ELSE IF Collides(w.dma_addr, env.facts)
                     THEN [w EXCEPT !.prp2 = w.dma_addr, !.status = "err"]
                     ELSE PrpAdvance([w EXCEPT !.prp2 = Stamp(w.dma_addr, env.facts)], env)
     ELSE (* an entry of the list; the collision test reads *prp1_entry *)
          IF Collides(w.prp1, env.facts)
            THEN [w EXCEPT !.list = Append(w.list, w.dma_addr), !.status = "err"]
            ELSE PrpAdvance([w EXCEPT !.list = Append(w.list, Stamp(w.dma_addr, env.facts)),
                                      !.prp_entry_dma = w.prp_entry_dma + 1], env)

RECURSIVE PrpWalk(_, _)
PrpWalk(w, env) == IF w.status # "run" THEN w ELSE PrpWalk(PrpStep(w, env), env)

PrpWalkInit(dma_addr, length) ==
  [length |-> length, dma_addr |-> dma_addr, prp_entry |-> "prp1", prp_entry_dma |-> 0,
   prp1 |-> NullAddr, prp2 |-> NullAddr, prp2_is_list |-> FALSE, list |-> << >>,
   status |-> "run"]

(***************************************************************************)
(* The whole builder.  tgt = [found, pgsz] is what                         *)
(* mpi3mr_get_tgtdev_by_handle gives for the request's dev_handle;         *)
(* scratch = [ok, virt, dma] is what dma_alloc_coherent gives for the      *)
(* scratch region (virt: the low bits of its kernel address).              *)
(* Result: ret (0 or -1), tried (dma_alloc_coherent was called, which      *)
(* assigns mrioc->nvme_encap_prp_list), allocated / released (the scratch  *)
(* region was allocated, and released at err_out), and the walk.           *)
(***************************************************************************)
BuildNvmePrp(facts, bufs, tgt, scratch) ==
  LET first == FirstDataBuf(bufs)
      length == IF first = 0 THEN 0 ELSE bufs[first].kern_buf_len
      dma_addr == IF first = 0 THEN NullAddr ELSE bufs[first].kern_buf_dma
      dev_pgsz == Pow2(tgt.pgsz)
      env == [dev_pgsz |-> dev_pgsz, prp_page_dma |-> scratch.dma, facts |-> facts]
      none == PrpWalkInit(dma_addr, length)
  IN IF length = 0
       THEN [ret |-> 0, tried |-> FALSE, allocated |-> FALSE, released |-> FALSE,
             walk |-> none]
     ELSE IF ~tgt.found \/ tgt.pgsz = 0
       THEN [ret |-> -1, tried |-> FALSE, allocated |-> FALSE, released |-> FALSE,
             walk |-> none]
     ELSE IF ~scratch.ok
       THEN [ret |-> -1, tried |-> TRUE, allocated |-> FALSE, released |-> FALSE,
             walk |-> none]
     ELSE IF (scratch.virt + MPI3MR_NVME_PRP_SIZE) % dev_pgsz = 0
       THEN [ret |-> -1, tried |-> TRUE, allocated |-> TRUE, released |-> TRUE,
             walk |-> none]
     ELSE LET w == PrpWalk(none, env)
          IN [ret |-> IF w.status = "ok" THEN 0 ELSE -1,
              tried |-> TRUE,
              allocated |-> TRUE,
              released |-> w.status # "ok",
              walk |-> w]

(***************************************************************************)
(* mpi3mr_get_nvme_data_fmt and mpi3mr_build_nvme_sgl.                     *)
(***************************************************************************)
MPI3MR_NVME_DATA_FORMAT_PRP == 0
MPI3MR_NVME_DATA_FORMAT_SGL1 == 1
MPI3MR_NVME_DATA_FORMAT_SGL2 == 2

(* Variant of GetNvmeDataFmt that reads bit 14 only. *)
GetNvmeDataFmt_OneBit(command0) == (command0 \div 16384) % 2

(* (command[0] & 0xc000) >> 14 *)
GetNvmeDataFmt(command0) == (command0 \div 16384) % 4

BuildNvmeSgl(facts, bufs) ==
  LET first == FirstDataBuf(bufs)
      length == IF first = 0 THEN 0 ELSE bufs[first].kern_buf_len
      sgl_ptr == IF first = 0 THEN NullAddr ELSE bufs[first].kern_buf_dma
  IN IF length = 0
       THEN [ret |-> 0, written |-> FALSE, raw |-> sgl_ptr, base_addr |-> NullAddr,
             length |-> 0]
     ELSE IF Collides(sgl_ptr, facts)
       THEN [ret |-> -1, written |-> FALSE, raw |-> sgl_ptr, base_addr |-> NullAddr,
             length |-> 0]
     ELSE [ret |-> 0, written |-> TRUE, raw |-> sgl_ptr,
           base_addr |-> Stamp(sgl_ptr, facts), length |-> length]


(***************************************************************************)
(* State.                                                                  *)
(*   pc, rval, loc, dma_buffers   per invocation: position, return value,  *)
(*                                locals, the dma_buffers array            *)
(*   ioctl_cmds                   mrioc->ioctl_cmds (struct mpi3mr_drv_cmd)*)
(*   mutex                        owner of ioctl_cmds.mutex, 0 when free   *)
(*   done                         ioctl_cmds.done has been completed       *)
(*   outstanding                  a posted frame is with the firmware      *)
(*   reset_in_progress, block_ioctls, facts, nvme_encap_prp_list           *)
(*                                fields of struct mpi3mr_ioc              *)
(*   resets                       the causes mpi3mr_soft_reset_handler was *)
(*                                called with, per caller (0: a trigger    *)
(*                                outside the passthrough handler)         *)
(*   ext_resets                   resets started by other triggers         *)
(*   heap                         per invocation, how often each region    *)
(*                                was allocated and released               *)
(*   user_out                     per invocation, what copy_to_user wrote  *)
(*   hist                         per invocation, what it has done         *)
(*   drv                          the invocation of                        *)
(*                                mpi3mr_ioctl_process_drv_cmds            *)
(*   pel                          mrioc->pel_abort_cmd and the pel_* fields*)
(*                                of struct mpi3mr_ioc                     *)
(*   walk                         the locals of the "while (length)" loop  *)
(*                                of mpi3mr_build_nvme_prp when the loop   *)
(*                                is followed pass by pass                 *)
(***************************************************************************)
VARIABLES pc, rval, loc, dma_buffers, ioctl_cmds, mutex, done, outstanding,
          reset_in_progress, block_ioctls, facts, nvme_encap_prp_list,
          resets, ext_resets, heap, user_out, hist, drv, pel, walk

vars == <<pc, rval, loc, dma_buffers, ioctl_cmds, mutex, done, outstanding,
          reset_in_progress, block_ioctls, facts, nvme_encap_prp_list,
          resets, ext_resets, heap, user_out, hist, drv, pel, walk>>

slot_vars == <<ioctl_cmds, mutex, done, outstanding>>
ioc_vars == <<reset_in_progress, block_ioctls, facts, walk, nvme_encap_prp_list,
              resets, ext_resets>>

(* flags of mpi3mr_drv_cmd.state *)
MPI3MR_CMD_NOTUSED == "NOTUSED"
MPI3MR_CMD_PENDING == "PENDING"
MPI3MR_CMD_COMPLETE == "COMPLETE"
MPI3MR_CMD_REPLY_VALID == "REPLY_VALID"
MPI3MR_CMD_RESET == "RESET"

MPI3_IOCSTATUS_SUCCESS == 0

MPI3MR_RESET_FROM_IOCTL_TIMEOUT == "RESET_FROM_IOCTL_TIMEOUT"
RESET_FROM_OTHER == "RESET_FROM_OTHER"

FUNCTION_NVME_ENCAPSULATED == "NVME_ENCAPSULATED"
FUNCTION_OTHER == "OTHER"

(* what mpi3mr_build_nvme_prp left behind: called (the builder got past
   its "no data" return), ret, its locals dev_pgsz and prp_page_dma (0 and
   the null address while unassigned), the two PRP slots of the command in
   the request frame, and the entries written to the scratch region *)
NoPrp == [called |-> FALSE, ret |-> 0, dev_pgsz |-> 0, prp_page_dma |-> NullAddr,
          dma_addr |-> NullAddr, length |-> 0,
          prp1 |-> NullAddr, prp2 |-> NullAddr, prp2_is_list |-> FALSE, list |-> << >>]

(* what mpi3mr_build_nvme_sgl left in the command: raw is the address of the
   data buffer, base_addr and length the descriptor written *)
NoNvmeSgl ==
  [ret |-> 0, written |-> FALSE, raw |-> NullAddr, base_addr |-> NullAddr, length |-> 0]

ZeroLoc ==
  [c |-> ClassifyInit(<< >>), buffer_list |-> << >>, function |-> FUNCTION_OTHER,
   command0 |-> 0, mpi_msg_size |-> 0, nonblock |-> FALSE, sense_buff_k |-> 0,
   ioctl_reply_buf |-> 0, prp |-> NoPrp, sgl |-> << >>, nvme_sgl |-> NoNvmeSgl]

ZeroHeap == [dma |-> << >>, dma_free |-> << >>, sense |-> 0, sense_free |-> 0,
             prp |-> 0, prp_free |-> 0, reply |-> 0, reply_free |-> 0]

ZeroHist == [acquired |-> FALSE, pending |-> FALSE, posted |-> 0, timed_out |-> FALSE,
             completed |-> FALSE, path |-> "none"]

(* the reply frame area after memset(reply, 0, reply_sz) *)
ZeroReply == [ioc_status |-> 0, ioc_loginfo |-> 0]

ZeroCmd == [state |-> {MPI3MR_CMD_NOTUSED}, is_waiting |-> 0, is_sense |-> FALSE,
            sensebuf |-> 0, ioc_status |-> 0, ioc_loginfo |-> 0, reply |-> ZeroReply]

(* the caller number of the driver-command invocation, for the owner of
   ioctl_cmds.mutex and for resets *)
DrvId == NumProcs + 1

(* the locals of mpi3mr_ioctl_process_drv_cmds and of the handlers it
   calls: karg and pel_enable as copied in, rval, and retval of
   mpi3mr_app_pel_abort; calls counts the invocations made so far *)
ZeroDrv == [pc |-> "start", rval |-> "OK", retval |-> 0, nonblock |-> FALSE,
            opcode |-> "NONE", pel_class |-> 0, pel_locale |-> {}, copy_ok |-> TRUE,
            calls |-> 0]

(* pel_abort_cmd (state, is_waiting, ioc_status, pe_log_status of its
   reply, its mutex and completion, and whether its frame is with the
   firmware) and pel_abort_requested, pel_enabled, pel_class, pel_locale of
   the zeroed struct mpi3mr_ioc; a locale is the set of its bits *)
ZeroPel == [state |-> {MPI3MR_CMD_NOTUSED}, is_waiting |-> 0, ioc_status |-> 0,
            pe_log_status |-> 0, mutex |-> 0, done |-> FALSE, outstanding |-> FALSE,
            abort_requested |-> FALSE, enabled |-> FALSE, class |-> 0, locale |-> {}]

(* the adapter facts of the checked configurations *)
FactsSet == {[reply_sz |-> 8, sge_mod_mask |-> 2, sge_mod_value |-> 2, sge_mod_shift |-> 0]}

(* no loop of mpi3mr_build_nvme_prp is being followed pass by pass *)
IdleWalk ==
  [active |-> FALSE, w |-> PrpWalkInit(NullAddr, 0), dev_pgsz |-> 0,
   prp_page_dma |-> NullAddr, iterations |-> 0, returned |-> FALSE, ret |-> 0]

Init ==
  /\ pc = [p \in Procs |-> "start"]
  /\ rval = [p \in Procs |-> "EINVAL"]
  /\ loc = [p \in Procs |-> ZeroLoc]
  /\ dma_buffers = [p \in Procs |-> << >>]
  /\ ioctl_cmds = ZeroCmd
  /\ mutex = 0
  /\ done = FALSE
  /\ outstanding = FALSE
  /\ reset_in_progress = FALSE
  /\ block_ioctls = FALSE
  /\ facts \in FactsSet
  /\ nvme_encap_prp_list = 0
  /\ resets = [by \in 0..DrvId |-> << >>]
  /\ ext_resets = 0
  /\ heap = [p \in Procs |-> ZeroHeap]
  /\ user_out = [p \in Procs |-> << >>]
  /\ hist = [p \in Procs |-> ZeroHist]
  /\ drv = ZeroDrv
  /\ pel = ZeroPel
  /\ walk = IdleWalk

(***************************************************************************)
(* mpi3mr_ioctl_process_mpt_cmds from its entry to the call of             *)
(* mutex_trylock / mutex_lock_interruptible: only locals are touched.      *)
(* inputs is the set of arguments the invocation may be made with; an      *)
(* argument in says what the caller passes and what the kernel services do:*)
(*   in.fault     which, if any, of copy_from_user / kzalloc /             *)
(*                mpi3mr_verify_adapter fails before the classification    *)
(*   in.list_size karg.buf_entry_list_size, in.mpi_msg_size                *)
(*   in.entries   the buffer list, in.function / in.command0 the header    *)
(*   in.nonblock  O_NONBLOCK in file->f_flags                              *)
(*   in.alloc     the fault of the allocation loop, in.base its addresses  *)
(*   in.sense_ok  whether kzalloc of the sense buffer succeeds             *)
(***************************************************************************)
HeapOfBufs(bufs) ==
  [ZeroHeap EXCEPT !.dma = [i \in 1..Len(bufs) |-> IF bufs[i].kern_buf # 0 THEN 1 ELSE 0],
                   !.dma_free = [i \in 1..Len(bufs) |-> 0]]

(* the outcome of the straight-line code: where it goes and with what *)
BeginOutcome(in) ==
  LET c == Classify(in.entries)
      a == AllocBuffers(c, in.alloc, in.base)
      none == [to |-> "done", rval |-> "OK", c |-> ClassifyInit(<< >>), bufs |-> << >>,
               list |-> << >>, sense |-> 0, path |-> "none"]
      read == [none EXCEPT !.to = "out", !.c = c, !.list = in.entries]
  IN IF in.fault = "karg_copy"
       THEN [none EXCEPT !.rval = "EFAULT", !.path = "args"]
     ELSE IF in.fault = "no_adapter"
       THEN [none EXCEPT !.rval = "ENODEV", !.path = "args"]
     ELSE IF in.list_size = 0 \/ in.mpi_msg_size = 0
       THEN [none EXCEPT !.rval = "EINVAL", !.path = "args"]
     ELSE IF in.mpi_msg_size * 4 > MPI3MR_ADMIN_REQ_FRAME_SZ
       THEN [none EXCEPT !.rval = "EINVAL", !.path = "args"]
     ELSE
          IF in.fault = "req_alloc"
            THEN [none EXCEPT !.rval = "ENOMEM", !.path = "args"]
          ELSE IF in.fault = "req_copy"
            THEN [none EXCEPT !.to = "out", !.rval = "EINVAL", !.path = "args"]
          ELSE IF in.fault = "list_alloc"
            THEN [none EXCEPT !.to = "out", !.rval = "ENOMEM", !.path = "args"]
          ELSE IF in.fault = "list_copy"
            THEN [none EXCEPT !.to = "out", !.rval = "EFAULT", !.path = "args"]
          ELSE IF Len(in.entries) = 0
            THEN [none EXCEPT !.to = "out", !.rval = "EINVAL", !.path = "args"]
          ELSE IF in.fault = "dmabufs_alloc"
            THEN [none EXCEPT !.to = "out", !.rval = "ENOMEM", !.path = "args"]
          ELSE IF c.invalid_be
            THEN [read EXCEPT !.rval = "EINVAL", !.bufs = c.dma_buffers,
                              !.path = "classify"]
          ELSE IF FrameTooSmall(c, in.mpi_msg_size)
            THEN [read EXCEPT !.rval = "EINVAL", !.bufs = c.dma_buffers, !.path = "frame"]
          ELSE IF a.rval # "OK"
            THEN [read EXCEPT !.rval = a.rval, !.bufs = a.dma_buffers,
                              !.path = IF a.rval = "ENOMEM" THEN "alloc" ELSE "copyin"]
          ELSE IF c.erb_offset # NO_OFFSET /\ ~in.sense_ok
            THEN [read EXCEPT !.rval = "ENOMEM", !.bufs = a.dma_buffers,
                              !.path = "sense_alloc"]
          ELSE [read EXCEPT !.to = "lock", !.rval = "EINVAL", !.bufs = a.dma_buffers,
                            !.sense = IF c.erb_offset # NO_OFFSET THEN 1 ELSE 0]

(* invocations are interchangeable: they enter in the order of their numbers *)
InOrder(p) == IF p = 1 THEN TRUE ELSE pc[p - 1] # "start"

MptBegin(p, inputs) ==
  /\ pc[p] = "start"
  /\ InOrder(p)
  /\ \E in \in inputs :
     LET o == BeginOutcome(in)
     IN /\ pc' = [pc EXCEPT ![p] = o.to]
        /\ rval' = [rval EXCEPT ![p] = o.rval]
        /\ loc' = [loc EXCEPT ![p] =
                     IF o.to = "lock"
                       THEN [c |-> [o.c EXCEPT !.dma_buffers = << >>],
                             buffer_list |-> o.list,
                             function |-> in.function, command0 |-> in.command0,
                             mpi_msg_size |-> in.mpi_msg_size, nonblock |-> in.nonblock,
                             sense_buff_k |-> o.sense, ioctl_reply_buf |-> 0,
                             prp |-> NoPrp, nvme_sgl |-> NoNvmeSgl,
                             sgl |-> IF in.function # FUNCTION_NVME_ENCAPSULATED
                                       THEN IoctlBuildSgl(in.mpi_msg_size * 4, o.bufs,
                                                          o.c.is_rmcb, o.c.is_rmrb,
                                                          o.c.dout_cnt + o.c.din_cnt)
                                       ELSE << >>]
                       ELSE [ZeroLoc EXCEPT !.c = [o.c EXCEPT !.dma_buffers = << >>],
                                            !.buffer_list = o.list]]
        /\ dma_buffers' = [dma_buffers EXCEPT ![p] = o.bufs]
        /\ heap' = [heap EXCEPT ![p] = [HeapOfBufs(o.bufs) EXCEPT !.sense = o.sense]]
        /\ hist' = [hist EXCEPT ![p].path = o.path]
  /\ UNCHANGED <<slot_vars, ioc_vars, user_out, drv, pel>>


(***************************************************************************)
(* Taking ioctl_cmds.mutex: mutex_trylock under O_NONBLOCK, otherwise      *)
(* mutex_lock_interruptible, which sleeps while the mutex is held and      *)
(* returns non-zero when a signal arrives during the sleep.                *)
(***************************************************************************)
(* Variant of MptTryLock that goes on whatever mutex_trylock returns. *)
MptTryLock_IgnoreResult(p) ==
  /\ pc[p] = "lock"
  /\ loc[p].nonblock
  /\ mutex' = IF mutex = 0 THEN p ELSE mutex
  /\ pc' = [pc EXCEPT ![p] = "check_reset"]
  /\ hist' = [hist EXCEPT ![p].acquired = TRUE]
  /\ UNCHANGED <<rval, loc, dma_buffers, ioctl_cmds, done, outstanding, ioc_vars, heap,
                 user_out, drv, pel>>

MptTryLock(p) ==
  /\ pc[p] = "lock"
  /\ loc[p].nonblock
  /\ IF mutex = 0
       THEN /\ mutex' = p
            /\ pc' = [pc EXCEPT ![p] = "check_reset"]
            /\ hist' = [hist EXCEPT ![p].acquired = TRUE]
            /\ rval' = rval
       ELSE /\ mutex' = mutex
            /\ pc' = [pc EXCEPT ![p] = "out"]
            /\ hist' = [hist EXCEPT ![p].path = "busy"]
            /\ rval' = [rval EXCEPT ![p] = "EAGAIN"]
  /\ UNCHANGED <<loc, dma_buffers, ioctl_cmds, done, outstanding, ioc_vars, heap, user_out,
                 drv, pel>>

(* Variant of MptLockInterruptible that does not wait for the mutex. *)
MptLockInterruptible_NoWait(p) ==
  /\ pc[p] = "lock"
  /\ ~loc[p].nonblock
  /\ mutex' = p
  /\ pc' = [pc EXCEPT ![p] = "check_reset"]
  /\ hist' = [hist EXCEPT ![p].acquired = TRUE]
  /\ UNCHANGED <<rval, loc, dma_buffers, ioctl_cmds, done, outstanding, ioc_vars, heap,
                 user_out, drv, pel>>

MptLockInterruptible(p) ==
  /\ pc[p] = "lock"
  /\ ~loc[p].nonblock
  /\ mutex = 0
  /\ mutex' = p
  /\ pc' = [pc EXCEPT ![p] = "check_reset"]
  /\ hist' = [hist EXCEPT ![p].acquired = TRUE]
  /\ UNCHANGED <<rval, loc, dma_buffers, ioctl_cmds, done, outstanding, ioc_vars, heap,
                 user_out, drv, pel>>

MptLockInterrupted(p) ==
  /\ pc[p] = "lock"
  /\ ~loc[p].nonblock
  /\ mutex # 0
  /\ pc' = [pc EXCEPT ![p] = "out"]
  /\ rval' = [rval EXCEPT ![p] = "ERESTARTSYS"]
  /\ hist' = [hist EXCEPT ![p].path = "interrupted"]
  /\ UNCHANGED <<loc, dma_buffers, slot_vars, ioc_vars, heap, user_out, drv, pel>>

(***************************************************************************)
(* The tests made right after the mutex is taken: the slot is in use or a  *)
(* reset is in progress, then IOCTLs are blocked.  Each gives -EAGAIN,     *)
(* unlocks and leaves by "out".                                            *)
(***************************************************************************)
MptCheckReset(p) ==
  /\ pc[p] = "check_reset"
  /\ IF MPI3MR_CMD_PENDING \in ioctl_cmds.state \/ reset_in_progress
       THEN /\ rval' = [rval EXCEPT ![p] = "EAGAIN"]
            /\ mutex' = 0
            /\ pc' = [pc EXCEPT ![p] = "out"]
            /\ hist' = [hist EXCEPT ![p].path =
                          IF MPI3MR_CMD_PENDING \in ioctl_cmds.state
                            THEN "in_use" ELSE "reset"]
       ELSE /\ pc' = [pc EXCEPT ![p] = "check_block"]
            /\ UNCHANGED <<rval, mutex, hist>>
  /\ UNCHANGED <<loc, dma_buffers, ioctl_cmds, done, outstanding, ioc_vars, heap, user_out,
                 drv, pel>>

(* Variant of MptCheckBlock that does not test block_ioctls. *)
MptCheckBlock_Ignored(p) ==
  /\ pc[p] = "check_block"
  /\ pc' = [pc EXCEPT ![p] = "encode"]
  /\ UNCHANGED <<rval, mutex, hist, loc, dma_buffers, ioctl_cmds, done, outstanding,
                 ioc_vars, heap, user_out, drv, pel>>

MptCheckBlock(p) ==
  /\ pc[p] = "check_block"
  /\ IF block_ioctls
       THEN /\ rval' = [rval EXCEPT ![p] = "EAGAIN"]
            /\ mutex' = 0
            /\ pc' = [pc EXCEPT ![p] = "out"]
            /\ hist' = [hist EXCEPT ![p].path = "blocked"]
       ELSE /\ pc' = [pc EXCEPT ![p] = "encode"]
            /\ UNCHANGED <<rval, mutex, hist>>
  /\ UNCHANGED <<loc, dma_buffers, ioctl_cmds, done, outstanding, ioc_vars, heap, user_out,
                 drv, pel>>

(***************************************************************************)
(* The NVMe-encapsulated branch: PRP, SGL or an invalid format.            *)
(* tgt and scratch are what the device lookup and the allocation of the    *)
(* PRP scratch region give (see BuildNvmePrp).  The scratch region is      *)
(* recorded in mrioc->nvme_encap_prp_list and released only at err_out.    *)
(***************************************************************************)
EncodeOutcome(p, tgt, scratch) ==
  LET fmt == GetNvmeDataFmt(loc[p].command0)
      prp == BuildNvmePrp(facts, dma_buffers[p], tgt, scratch)
      sgl == BuildNvmeSgl(facts, dma_buffers[p])
      first == FirstDataBuf(dma_buffers[p])
      ok == [rval |-> rval[p], fail |-> FALSE, allocated |-> FALSE, released |-> FALSE,
             touched |-> FALSE, path |-> hist[p].path, prp |-> NoPrp,
             nvme_sgl |-> NoNvmeSgl]
  IN IF loc[p].function # FUNCTION_NVME_ENCAPSULATED
       THEN ok
     ELSE IF fmt = MPI3MR_NVME_DATA_FORMAT_PRP
       THEN [rval |-> IF prp.ret # 0 THEN "ENOMEM" ELSE rval[p],
             fail |-> prp.ret # 0,
             allocated |-> prp.allocated, released |-> prp.released,
             touched |-> prp.tried,
             path |-> IF prp.ret # 0 THEN "encode" ELSE hist[p].path,
             nvme_sgl |-> NoNvmeSgl,
             prp |-> IF first = 0 \/ dma_buffers[p][first].kern_buf_len = 0
                       THEN NoPrp
                       ELSE [called |-> TRUE, ret |-> prp.ret,
                             dev_pgsz |-> IF tgt.found /\ tgt.pgsz # 0
                                            THEN Pow2(tgt.pgsz) ELSE 0,
                             prp_page_dma |-> IF prp.allocated THEN scratch.dma
                                              ELSE NullAddr,
                             dma_addr |-> dma_buffers[p][first].kern_buf_dma,
                             length |-> dma_buffers[p][first].kern_buf_len,
                             prp1 |-> prp.walk.prp1, prp2 |-> prp.walk.prp2,
                             prp2_is_list |-> prp.walk.prp2_is_list,
                             list |-> prp.walk.list]]
     ELSE IF fmt = MPI3MR_NVME_DATA_FORMAT_SGL1 \/ fmt = MPI3MR_NVME_DATA_FORMAT_SGL2
       THEN [ok EXCEPT !.rval = IF sgl.ret # 0 THEN "EINVAL" ELSE rval[p],
                       !.fail = sgl.ret # 0,
                       !.path = IF sgl.ret # 0 THEN "encode" ELSE hist[p].path,
                       !.nvme_sgl = sgl]
     ELSE [ok EXCEPT !.rval = "EINVAL", !.fail = TRUE, !.path = "format"]

MptEncode(p, tgt, scratch) ==
  /\ pc[p] = "encode"
  /\ LET o == EncodeOutcome(p, tgt, scratch)
     IN /\ rval' = [rval EXCEPT ![p] = o.rval]
        /\ mutex' = IF o.fail THEN 0 ELSE mutex
        /\ pc' = [pc EXCEPT ![p] = IF o.fail THEN "out" ELSE "post"]
        /\ nvme_encap_prp_list' =
             IF ~o.touched THEN nvme_encap_prp_list
             ELSE IF o.allocated /\ ~o.released THEN p ELSE 0
        /\ heap' = [heap EXCEPT ![p].prp = @ + (IF o.allocated THEN 1 ELSE 0),
                                ![p].prp_free = @ + (IF o.released THEN 1 ELSE 0)]
        /\ hist' = [hist EXCEPT ![p].path = o.path]
        /\ loc' = [loc EXCEPT ![p].prp = o.prp, ![p].nvme_sgl = o.nvme_sgl]
  /\ UNCHANGED <<dma_buffers, ioctl_cmds, done, outstanding, reset_in_progress,
                 block_ioctls, facts, walk, resets, ext_resets, user_out, drv, pel>>


(***************************************************************************)
(* Marking the slot pending and posting the frame with                     *)
(* mpi3mr_admin_request_post; post_ok is whether the post succeeds.        *)
(***************************************************************************)
(* Variant of MptPost that does not test what mpi3mr_admin_request_post
   returns. *)
MptPost_IgnoreFailure(p, post_ok) ==
  /\ pc[p] = "post"
  /\ ioctl_cmds' = [ioctl_cmds EXCEPT !.state = {MPI3MR_CMD_PENDING},
                                      !.is_waiting = 1,
                                      !.is_sense = FALSE,
                                      !.sensebuf = loc[p].sense_buff_k,
                                      !.reply = ZeroReply]
  /\ done' = FALSE
  /\ outstanding' = IF post_ok THEN TRUE ELSE outstanding
  /\ rval' = [rval EXCEPT ![p] = IF post_ok THEN "OK" ELSE "EAGAIN"]
  /\ pc' = [pc EXCEPT ![p] = "wait"]
  /\ hist' = IF post_ok
               THEN [hist EXCEPT ![p].pending = TRUE, ![p].posted = @ + 1]
               ELSE [hist EXCEPT ![p].pending = TRUE, ![p].path = "submit"]
  /\ UNCHANGED <<loc, dma_buffers, mutex, ioc_vars, heap, user_out, drv, pel>>

MptPost(p, post_ok) ==
  /\ pc[p] = "post"
  /\ ioctl_cmds' = [ioctl_cmds EXCEPT !.state = {MPI3MR_CMD_PENDING},
                                      !.is_waiting = 1,
                                      !.is_sense = FALSE,
                                      !.sensebuf = loc[p].sense_buff_k,
                                      !.reply = ZeroReply]
  /\ done' = FALSE
  /\ IF post_ok
       THEN /\ outstanding' = TRUE
            /\ rval' = [rval EXCEPT ![p] = "OK"]
            /\ pc' = [pc EXCEPT ![p] = "wait"]
            /\ hist' = [hist EXCEPT ![p].pending = TRUE, ![p].posted = @ + 1]
       ELSE /\ outstanding' = outstanding
            /\ rval' = [rval EXCEPT ![p] = "EAGAIN"]
            /\ pc' = [pc EXCEPT ![p] = "out_unlock"]
            /\ hist' = [hist EXCEPT ![p].pending = TRUE, ![p].path = "submit"]
  /\ UNCHANGED <<loc, dma_buffers, mutex, ioc_vars, heap, user_out, drv, pel>>

(***************************************************************************)
(* wait_for_completion_timeout returns because the completion was          *)
(* signalled, or because the timeout elapsed without a signal.  Its        *)
(* return value is not used.                                               *)
(***************************************************************************)
MptWaitDone(p) ==
  /\ pc[p] = "wait"
  /\ done
  /\ pc' = [pc EXCEPT ![p] = "woken"]
  /\ UNCHANGED <<rval, loc, dma_buffers, slot_vars, ioc_vars, heap, user_out, hist,
                 drv, pel>>

MptWaitTimeout(p) ==
  /\ pc[p] = "wait"
  /\ ~done
  /\ pc' = [pc EXCEPT ![p] = "woken"]
  /\ hist' = [hist EXCEPT ![p].timed_out = TRUE]
  /\ UNCHANGED <<rval, loc, dma_buffers, slot_vars, ioc_vars, heap, user_out, drv, pel>>

(* Variant of MptAfterWait that leaves by out_unlock without calling
   mpi3mr_soft_reset_handler. *)
MptAfterWait_NoEscalation(p) ==
  /\ pc[p] = "woken"
  /\ IF MPI3MR_CMD_COMPLETE \notin ioctl_cmds.state
       THEN /\ ioctl_cmds' = [ioctl_cmds EXCEPT !.is_waiting = 0]
            /\ rval' = [rval EXCEPT ![p] = "EFAULT"]
            /\ pc' = [pc EXCEPT ![p] = "out_unlock"]
            /\ hist' = [hist EXCEPT ![p].path = "timeout"]
       ELSE /\ pc' = [pc EXCEPT ![p] = "drain"]
            /\ hist' = [hist EXCEPT ![p].completed = TRUE]
            /\ UNCHANGED <<ioctl_cmds, rval>>
  /\ UNCHANGED <<loc, dma_buffers, mutex, done, outstanding, ioc_vars, heap, user_out,
                 drv, pel>>

(* the test of MPI3MR_CMD_COMPLETE after the wait *)
MptAfterWait(p) ==
  /\ pc[p] = "woken"
  /\ IF MPI3MR_CMD_COMPLETE \notin ioctl_cmds.state
       THEN /\ ioctl_cmds' = [ioctl_cmds EXCEPT !.is_waiting = 0]
            /\ rval' = [rval EXCEPT ![p] = "EFAULT"]
            /\ pc' = [pc EXCEPT ![p] = "timeout_reset"]
            /\ hist' = [hist EXCEPT ![p].path = "timeout"]
       ELSE /\ pc' = [pc EXCEPT ![p] = "drain"]
            /\ hist' = [hist EXCEPT ![p].completed = TRUE]
            /\ UNCHANGED <<ioctl_cmds, rval>>
  /\ UNCHANGED <<loc, dma_buffers, mutex, done, outstanding, ioc_vars, heap, user_out,
                 drv, pel>>

(***************************************************************************)
(* mpi3mr_soft_reset_handler, the recovery primitive: the request is       *)
(* recorded with its cause, and a pending passthrough command is           *)
(* terminated: its slot is marked RESET and its waiter woken.              *)
(***************************************************************************)
FlushedCmd(cmd) ==
  IF MPI3MR_CMD_PENDING \in cmd.state
    THEN [cmd EXCEPT !.state = {MPI3MR_CMD_RESET}]
    ELSE cmd

SoftResetHandler(by, reason) ==
  /\ resets' = [resets EXCEPT ![by] = Append(@, reason)]
  /\ ioctl_cmds' = FlushedCmd(ioctl_cmds)
  /\ done' = IF MPI3MR_CMD_PENDING \in ioctl_cmds.state /\ ioctl_cmds.is_waiting = 1
               THEN TRUE ELSE done
  /\ outstanding' = FALSE
  /\ pel' = [FlushedCmd(pel) EXCEPT
               !.done = IF MPI3MR_CMD_PENDING \in pel.state /\ pel.is_waiting = 1
                          THEN TRUE ELSE @,
               !.outstanding = FALSE]

(* the call on the timeout path *)
MptTimeoutReset(p) ==
  /\ pc[p] = "timeout_reset"
  /\ SoftResetHandler(p, MPI3MR_RESET_FROM_IOCTL_TIMEOUT)
  /\ pc' = [pc EXCEPT ![p] = "out_unlock"]
  /\ UNCHANGED <<rval, loc, dma_buffers, mutex, reset_in_progress, block_ioctls, facts, walk,
                 nvme_encap_prp_list, ext_resets, heap, user_out, hist, drv>>


(***************************************************************************)
(* Draining the results after a completed command: the reply staging       *)
(* record, the sense data, then every DMA_TO_DEVICE buffer.                *)
(* reply_ok: kzalloc of the staging record succeeds; cfail: the loop       *)
(* indexes of the buffers whose copy_to_user fails.                        *)
(* user_out[p][i] is what reached the caller's buffer i: len bytes of a    *)
(* record of the given kind.                                               *)
(***************************************************************************)
MPI3MR_IOCTL_MPI_REPLY_BUFTYPE_STATUS == "BUFTYPE_STATUS"
MPI3MR_IOCTL_MPI_REPLY_BUFTYPE_ADDRESS == "BUFTYPE_ADDRESS"

NoOut == [len |-> 0, kind |-> "none", ioc_status |-> 0, ioc_loginfo |-> 0]

(* Variant of ReplyRecord whose status-only record is left as kzalloc gave
   it. *)
ReplyRecord_NoStatus(cmd) ==
  IF MPI3MR_CMD_REPLY_VALID \in cmd.state
    THEN [kind |-> MPI3MR_IOCTL_MPI_REPLY_BUFTYPE_ADDRESS,
          ioc_status |-> cmd.reply.ioc_status, ioc_loginfo |-> cmd.reply.ioc_loginfo]
    ELSE [kind |-> MPI3MR_IOCTL_MPI_REPLY_BUFTYPE_STATUS,
          ioc_status |-> 0, ioc_loginfo |-> 0]

ReplyRecord(cmd) ==
  IF MPI3MR_CMD_REPLY_VALID \in cmd.state
    THEN [kind |-> MPI3MR_IOCTL_MPI_REPLY_BUFTYPE_ADDRESS,
          ioc_status |-> cmd.reply.ioc_status, ioc_loginfo |-> cmd.reply.ioc_loginfo]
    ELSE [kind |-> MPI3MR_IOCTL_MPI_REPLY_BUFTYPE_STATUS,
          ioc_status |-> cmd.ioc_status, ioc_loginfo |-> cmd.ioc_loginfo]

(* min_t(int, a, b): both values are cast to int and compared signed; the
   result is stored in a u32, the same 32 bits *)
MinTInt(a, b) == IF a < b THEN a ELSE b

HasReplyBuf(c, bufs) ==
  c.reply_offset # NO_OFFSET /\ bufs[c.reply_offset + 1].user_buf_len # 0

HasSense(c, cmd) == c.erb_offset # NO_OFFSET /\ cmd.sensebuf # 0 /\ cmd.is_sense

(* copy_to_user for buffer i fails: a copy of no bytes cannot *)
DataCopyFails(bufs, cfail, i) ==
  (i - 1) \in cfail /\ Min(bufs[i].kern_buf_len, bufs[i].user_buf_len) # 0

(* Variant of DataOut that leaves the loop at the first failed copy. *)
DataOut_StopAtFailure(bufs, cfail, out) ==
  [i \in 1..Len(bufs) |->
     IF bufs[i].data_dir # DMA_TO_DEVICE
          \/ \E j \in 1..(i - 1) :
                bufs[j].data_dir = DMA_TO_DEVICE /\ DataCopyFails(bufs, cfail, j)
       THEN out[i]
     ELSE IF DataCopyFails(bufs, cfail, i)
       THEN [NoOut EXCEPT !.kind = "fault"]
       ELSE [NoOut EXCEPT !.len = Min(bufs[i].kern_buf_len, bufs[i].user_buf_len),
                          !.kind = "data"]]

(* the loop over the DMA_TO_DEVICE buffers; a buffer whose copy failed is
   marked "fault" *)
DataOut(bufs, cfail, out) ==
  [i \in 1..Len(bufs) |->
     IF bufs[i].data_dir # DMA_TO_DEVICE
       THEN out[i]
     ELSE IF DataCopyFails(bufs, cfail, i)
       THEN [NoOut EXCEPT !.kind = "fault"]
       ELSE [NoOut EXCEPT !.len = Min(bufs[i].kern_buf_len, bufs[i].user_buf_len),
                          !.kind = "data"]]

DataOutFailed(bufs, cfail) ==
  \E i \in 1..Len(bufs) :
     bufs[i].data_dir = DMA_TO_DEVICE /\ DataCopyFails(bufs, cfail, i)

DrainOutcome(c, bufs0, cmd, fcts, rv, reply_ok, cfail) ==
  LET ri == c.reply_offset + 1
      ei == c.erb_offset + 1
      has_reply == HasReplyBuf(c, bufs0)
      bufs == IF has_reply
                THEN [bufs0 EXCEPT ![ri].kern_buf_len = REPLY_BUF_HDR_SZ + fcts.reply_sz]
                ELSE bufs0
      out0 == [i \in 1..Len(bufs) |-> NoOut]
      rlen == Min(bufs[ri].kern_buf_len, bufs[ri].user_buf_len)
      rec == ReplyRecord(cmd)
      out1 == IF has_reply
                THEN [out0 EXCEPT ![ri] = [len |-> rlen, kind |-> rec.kind,
                                           ioc_status |-> rec.ioc_status,
                                           ioc_loginfo |-> rec.ioc_loginfo]]
                ELSE out0
      slen == MinTInt(bufs[ei].user_buf_len, MPI3MR_SENSE_BUF_SZ)
      out2 == IF HasSense(c, cmd)
                THEN [out1 EXCEPT ![ei] = [NoOut EXCEPT !.len = slen, !.kind = "sense"]]
                ELSE out1
  IN IF has_reply /\ ~reply_ok
       THEN [rval |-> "ENOMEM", bufs |-> bufs, out |-> out0, reply |-> 0,
             path |-> "reply_alloc"]
     ELSE IF has_reply /\ (ri - 1) \in cfail /\ rlen # 0
       THEN [rval |-> "EFAULT", bufs |-> bufs, out |-> out0, reply |-> 1,
             path |-> "reply_copy"]
     ELSE IF HasSense(c, cmd) /\ (ei - 1) \in cfail /\ slen # 0
       THEN [rval |-> "EFAULT", bufs |-> bufs, out |-> out1,
             reply |-> IF has_reply THEN 1 ELSE 0, path |-> "sense_copy"]
     ELSE [rval |-> IF DataOutFailed(bufs, cfail) THEN "EFAULT" ELSE rv,
           bufs |-> bufs,
           out |-> DataOut(bufs, cfail, out2),
           reply |-> IF has_reply THEN 1 ELSE 0,
           path |-> IF DataOutFailed(bufs, cfail) THEN "data_copy" ELSE "success"]

MptDrain(p, reply_ok, cfail) ==
  /\ pc[p] = "drain"
  /\ LET o == DrainOutcome(loc[p].c, dma_buffers[p], ioctl_cmds, facts, rval[p],
                           reply_ok, cfail)
     IN /\ rval' = [rval EXCEPT ![p] = o.rval]
        /\ dma_buffers' = [dma_buffers EXCEPT ![p] = o.bufs]
        /\ user_out' = [user_out EXCEPT ![p] = o.out]
        /\ loc' = [loc EXCEPT ![p].ioctl_reply_buf = o.reply]
        /\ heap' = [heap EXCEPT ![p].reply = o.reply]
        /\ hist' = [hist EXCEPT ![p].path = o.path]
  /\ pc' = [pc EXCEPT ![p] = "out_unlock"]
  /\ UNCHANGED <<slot_vars, ioc_vars, drv, pel>>

(***************************************************************************)
(* out_unlock: the slot is reset and the mutex released.                   *)
(***************************************************************************)
(* Variant of MptOutUnlock that releases the mutex and leaves the slot as it
   is. *)
MptOutUnlock_KeepState(p) ==
  /\ pc[p] = "out_unlock"
  /\ mutex' = 0
  /\ pc' = [pc EXCEPT ![p] = "out"]
  /\ UNCHANGED <<rval, loc, dma_buffers, ioctl_cmds, done, outstanding, ioc_vars, heap,
                 user_out, hist, drv, pel>>

MptOutUnlock(p) ==
  /\ pc[p] = "out_unlock"
  /\ ioctl_cmds' = [ioctl_cmds EXCEPT !.is_sense = FALSE, !.sensebuf = 0,
                                      !.state = {MPI3MR_CMD_NOTUSED}]
  /\ mutex' = 0
  /\ pc' = [pc EXCEPT ![p] = "out"]
  /\ UNCHANGED <<rval, loc, dma_buffers, done, outstanding, ioc_vars, heap, user_out, hist,
                 drv, pel>>

(***************************************************************************)
(* out: the sense buffer, every mapped region of dma_buffers and the       *)
(* reply staging record are released, and the handler returns rval.        *)
(***************************************************************************)
(* Variant of FreedBufs that goes by kern_buf_len instead of the pointers. *)
FreedBufs_ByLength(bufs, freed) ==
  [i \in 1..Len(bufs) |-> IF bufs[i].kern_buf_len # 0 THEN freed[i] + 1 ELSE freed[i]]

FreedBufs(bufs, freed) ==
  [i \in 1..Len(bufs) |->
     IF bufs[i].kern_buf # 0 /\ bufs[i].kern_buf_dma # NullAddr
       THEN freed[i] + 1 ELSE freed[i]]

MptOut(p) ==
  /\ pc[p] = "out"
  /\ heap' = [heap EXCEPT
                ![p].sense_free = @ + (IF loc[p].sense_buff_k # 0 THEN 1 ELSE 0),
                ![p].dma_free = FreedBufs(dma_buffers[p], @),
                ![p].reply_free = @ + (IF loc[p].ioctl_reply_buf # 0 THEN 1 ELSE 0)]
  /\ pc' = [pc EXCEPT ![p] = "done"]
  /\ loc' = [loc EXCEPT ![p] = ZeroLoc]
  /\ dma_buffers' = [dma_buffers EXCEPT ![p] = << >>]
  /\ UNCHANGED <<rval, slot_vars, ioc_vars, user_out, hist, drv, pel>>


(***************************************************************************)
(* The environment of the handler.                                         *)
(*                                                                         *)
(* FwComplete: the admin reply handler for host tag                        *)
(* MPI3MR_HOSTTAG_IOCTLCMDS.  A pending slot becomes COMPLETE, and         *)
(* REPLY_VALID when a reply frame arrived; the status and log info are     *)
(* captured, sense data is copied to sensebuf when there is one, and the   *)
(* waiter is woken.                                                        *)
(***************************************************************************)
FwComplete(reply_valid, ioc_status, ioc_loginfo, sense) ==
  /\ outstanding
  /\ MPI3MR_CMD_PENDING \in ioctl_cmds.state
  /\ ioctl_cmds' =
       [ioctl_cmds EXCEPT
          !.state = {MPI3MR_CMD_COMPLETE}
                      \cup (IF reply_valid THEN {MPI3MR_CMD_REPLY_VALID} ELSE {}),
          !.ioc_status = ioc_status,
          !.ioc_loginfo = ioc_loginfo,
          !.reply = IF reply_valid
                      THEN [ioc_status |-> ioc_status, ioc_loginfo |-> ioc_loginfo]
                      ELSE @,
          !.is_sense = sense /\ ioctl_cmds.sensebuf # 0]
  /\ done' = IF ioctl_cmds.is_waiting = 1 THEN TRUE ELSE done
  /\ outstanding' = FALSE
  /\ UNCHANGED <<pc, rval, loc, dma_buffers, mutex, ioc_vars, heap, user_out, hist,
                 drv, pel>>

(* a reset started by another trigger (fault, watchdog, another ioctl) *)
ExtResetBegin ==
  /\ ~reset_in_progress
  /\ ext_resets < MaxExtResets
  /\ reset_in_progress' = TRUE
  /\ ext_resets' = ext_resets + 1
  /\ SoftResetHandler(0, RESET_FROM_OTHER)
  /\ UNCHANGED <<pc, rval, loc, dma_buffers, mutex, block_ioctls, facts, walk,
                 nvme_encap_prp_list, heap, user_out, hist, drv>>

ExtResetEnd ==
  /\ reset_in_progress
  /\ reset_in_progress' = FALSE
  /\ UNCHANGED <<pc, rval, loc, dma_buffers, slot_vars, block_ioctls, facts, walk,
                 nvme_encap_prp_list, resets, ext_resets, heap, user_out, hist, drv, pel>>

(* The administrative blocking and unblocking of IOCTLs.  Only the test
   after the mutex is taken reads the flag, so it is changed when an
   invocation is about to make that test. *)
SetBlockIoctls ==
  /\ \E p \in Procs : pc[p] = "check_block"
  /\ block_ioctls' = ~block_ioctls
  /\ UNCHANGED <<pc, rval, loc, dma_buffers, slot_vars, reset_in_progress, facts, walk,
                 nvme_encap_prp_list, resets, ext_resets, heap, user_out, hist, drv, pel>>

(***************************************************************************)
(* Inputs.                                                                 *)
(***************************************************************************)
Entry(t, l) == [buf_type |-> t, buf_len |-> l]

EntryFaults ==
  {"none", "karg_copy", "no_adapter", "req_alloc", "req_copy", "list_alloc",
   "list_copy", "dmabufs_alloc"}

DmaBase == [hi |-> 0, lo |-> 1024]

(* [function, command[0]] of the request header: a native request, and
   NVMe-encapsulated requests of data formats 0 (PRP), 1 (SGL) and 3 *)
Headers ==
  {[function |-> FUNCTION_OTHER, command0 |-> 0],
   [function |-> FUNCTION_NVME_ENCAPSULATED, command0 |-> 0],
   [function |-> FUNCTION_NVME_ENCAPSULATED, command0 |-> 16384],
   [function |-> FUNCTION_NVME_ENCAPSULATED, command0 |-> 49152]}

Targets == {[found |-> TRUE, pgsz |-> 4], [found |-> TRUE, pgsz |-> 0],
            [found |-> FALSE, pgsz |-> 0]}

Scratches == {[ok |-> TRUE, virt |-> 0, dma |-> [hi |-> 0, lo |-> 4096]],
              [ok |-> FALSE, virt |-> 0, dma |-> NullAddr]}

Completions ==
  {[reply_valid |-> rv, ioc_status |-> st, ioc_loginfo |-> IF st = 0 THEN 0 ELSE 7,
    sense |-> sn] : rv \in BOOLEAN, st \in {MPI3_IOCSTATUS_SUCCESS, 1}, sn \in BOOLEAN}

Env(completions) ==
  \/ \E k \in completions :
       FwComplete(k.reply_valid, k.ioc_status, k.ioc_loginfo, k.sense)
  \/ ExtResetBegin
  \/ ExtResetEnd
  \/ SetBlockIoctls

(***************************************************************************)
(* The concurrent specification: NumProcs invocations on one adapter,      *)
(* each with a native request and one buffer list.  Invocations are        *)
(* interchangeable, so they enter the handler in the order of their        *)
(* numbers.                                                                *)
(***************************************************************************)
ConcLists ==
  {<<Entry(BUFTYPE_DATA_IN, 16), Entry(BUFTYPE_MPI_REPLY, 16),
     Entry(BUFTYPE_ERR_RESPONSE, 16)>>}

ConcInputs ==
  {[fault |-> "none", list_size |-> 1, mpi_msg_size |-> 8, entries |-> e,
    function |-> FUNCTION_OTHER, command0 |-> 0, nonblock |-> nb,
    alloc |-> NoFault, base |-> DmaBase, sense_ok |-> TRUE] :
     e \in ConcLists, nb \in BOOLEAN}

ConcCompletions ==
  {k \in Completions : k.reply_valid /\ k.ioc_status # 0 /\ k.sense}

Mpt(p) ==
  \/ MptBegin(p, ConcInputs)
  \/ MptTryLock(p)
  \/ MptLockInterruptible(p)
  \/ MptLockInterrupted(p)
  \/ MptCheckReset(p)
  \/ MptCheckBlock(p)
  \/ \E tgt \in Targets, scratch \in Scratches : MptEncode(p, tgt, scratch)
  \/ \E post_ok \in BOOLEAN : MptPost(p, post_ok)
  \/ MptWaitDone(p)
  \/ MptWaitTimeout(p)
  \/ MptAfterWait(p)
  \/ MptTimeoutReset(p)
  \/ MptDrain(p, TRUE, {})
  \/ MptOutUnlock(p)
  \/ MptOut(p)

Next == Env(ConcCompletions) \/ \E p \in Procs : Mpt(p)

Spec == Init /\ [][Next]_vars


(***************************************************************************)
(* The sequential specification: one invocation, over every buffer list    *)
(* of up to MaxEntries entries and every failure of the kernel services.   *)
(***************************************************************************)
MaxEntries == 3

EntrySet ==
  {Entry(BUFTYPE_RAIDMGMT_CMD, 16), Entry(BUFTYPE_RAIDMGMT_RESP, 16),
   Entry(BUFTYPE_DATA_IN, 0), Entry(BUFTYPE_DATA_IN, 16), Entry(BUFTYPE_DATA_OUT, 16),
   Entry(BUFTYPE_MPI_REPLY, 1), Entry(BUFTYPE_MPI_REPLY, 16),
   Entry(BUFTYPE_ERR_RESPONSE, 16), Entry(BUFTYPE_UNKNOWN, 0)}

(* the buffer lists of n entries *)
Lists(n) == [1..n -> EntrySet]

Input(fault, list_size, msg, e, h, nb, af, base, sense_ok) ==
  [fault |-> fault, list_size |-> list_size, mpi_msg_size |-> msg, entries |-> e,
   function |-> h.function, command0 |-> h.command0, nonblock |-> nb,
   alloc |-> af, base |-> base, sense_ok |-> sense_ok]

NativeHeader == [function |-> FUNCTION_OTHER, command0 |-> 0]

(* the failures before the classification and the argument checks *)
ArgInputs ==
  {Input(f, ls, m, <<Entry(BUFTYPE_DATA_IN, 16)>>, NativeHeader, FALSE, NoFault, DmaBase,
         TRUE) : f \in EntryFaults, ls \in {0, 1}, m \in {0, 8, 33}}

(* headers that leave room for zero, one or two descriptor elements *)
FrameInputs ==
  {Input("none", 1, m, e, NativeHeader, TRUE, NoFault, DmaBase, TRUE) :
     m \in {24, 28, 32},
     e \in {<<Entry(BUFTYPE_DATA_IN, 16)>>,
            <<Entry(BUFTYPE_DATA_IN, 16), Entry(BUFTYPE_DATA_OUT, 16)>>,
            <<Entry(BUFTYPE_RAIDMGMT_CMD, 16), Entry(BUFTYPE_DATA_IN, 16)>>,
            <<Entry(BUFTYPE_MPI_REPLY, 16)>>}}

(* NVMe-encapsulated requests: data of one to three device pages, at an
   address that is clear of the modifier mask and at one that is not *)
NvmeInputs ==
  {Input("none", 1, 8, <<Entry(BUFTYPE_DATA_IN, l), Entry(BUFTYPE_MPI_REPLY, 16)>>, h,
         FALSE, NoFault, b, TRUE) :
     l \in {0, 16, 32, 48}, h \in Headers \ {NativeHeader},
     b \in {DmaBase, [hi |-> 2, lo |-> 1024]}}

(* sense buffers shorter than, as long as and longer than the driver's
   sense buffer; 0 - 1 is the u32 0xFFFFFFFF *)
SenseInputs ==
  {Input("none", 1, 8, <<Entry(BUFTYPE_DATA_IN, 16), Entry(BUFTYPE_ERR_RESPONSE, l)>>,
         NativeHeader, TRUE, NoFault, DmaBase, TRUE) :
     l \in {0, MPI3MR_SENSE_BUF_SZ, MPI3MR_SENSE_BUF_SZ + 4, 0 - 1}}

OneInputs == ArgInputs \cup FrameInputs \cup NvmeInputs \cup SenseInputs

(* every list, with every fault of the allocation loop *)
MptBeginList(p) ==
  /\ pc[p] = "start"
  /\ \E n \in 0..MaxEntries : \E e \in Lists(n) :
       \E af \in AllocFaults(Classify(e)), so \in BOOLEAN :
          MptBegin(p, {Input("none", 1, 8, e, NativeHeader, TRUE, af, DmaBase, so)})

OneCfails == {{}} \cup {{i} : i \in 0..(MaxEntries - 1)}

MptOne ==
  \/ MptBegin(1, OneInputs)
  \/ MptBeginList(1)
  \/ MptTryLock(1)
  \/ MptLockInterruptible(1)
  \/ MptCheckReset(1)
  \/ MptCheckBlock(1)
  \/ \E tgt \in Targets, scratch \in Scratches : MptEncode(1, tgt, scratch)
  \/ \E post_ok \in BOOLEAN : MptPost(1, post_ok)
  \/ MptWaitDone(1)
  \/ MptWaitTimeout(1)
  \/ MptAfterWait(1)
  \/ MptTimeoutReset(1)
  \/ \E reply_ok \in BOOLEAN, cfail \in OneCfails : MptDrain(1, reply_ok, cfail)
  \/ MptOutUnlock(1)
  \/ MptOut(1)

(* sense data comes with a non-success status *)
OneCompletions == {k \in Completions : k.sense = (k.ioc_status # 0)}

NextOne == Env(OneCompletions) \/ MptOne

SpecOne == Init /\ [][NextOne]_vars


(***************************************************************************)
(* The PRP specification: one NVMe-encapsulated request of data format PRP *)
(* with one data buffer, over transfer lengths, start addresses, device    *)
(* page sizes, scratch regions and SGE modifiers of the adapter.           *)
(***************************************************************************)
MaxLenUnits == 6

(* the length of the data buffer, in units of 16 bytes *)
PrpLenUnit == 4 * 4

(* sge_mod_mask, sge_mod_value and sge_mod_shift of the adapter facts: no
   modifier, a mask without a value and with a value inside it, and a
   shifted mask with a value inside it and with a value beside it *)
PrpFactsSet ==
  {[reply_sz |-> 8, sge_mod_mask |-> m[1], sge_mod_value |-> m[2], sge_mod_shift |-> m[3]] :
     m \in {<<0, 0, 0>>, <<2, 0, 0>>, <<2, 2, 0>>, <<3, 2, 0>>, <<1, 1, 1>>, <<2, 1, 1>>}}

PrpHeader == [function |-> FUNCTION_NVME_ENCAPSULATED, command0 |-> 0]

(* data at a device-page-aligned address and at one that is not, clear of
   the modifier masks and inside them *)
PrpBases ==
  {[hi |-> 0, lo |-> 1024], [hi |-> 0, lo |-> 1032], [hi |-> 2, lo |-> 1024],
   [hi |-> 4, lo |-> 1024]}

(* the two SGL data formats in bits 14 and 15 of command[0] *)
SglHeaders ==
  {[function |-> FUNCTION_NVME_ENCAPSULATED, command0 |-> f * 16384] :
     f \in {MPI3MR_NVME_DATA_FORMAT_SGL1, MPI3MR_NVME_DATA_FORMAT_SGL2}}

PrpInputs ==
  {Input("none", 1, 8, <<Entry(BUFTYPE_DATA_IN, k * PrpLenUnit), Entry(BUFTYPE_MPI_REPLY, 16)>>,
         PrpHeader, FALSE, NoFault, b, TRUE) :
     k \in 1..MaxLenUnits, b \in PrpBases}
  \cup
  {Input("none", 1, 8, <<Entry(BUFTYPE_DATA_IN, PrpLenUnit), Entry(BUFTYPE_MPI_REPLY, 16)>>,
         h, FALSE, NoFault, b, TRUE) :
     h \in SglHeaders, b \in PrpBases}

(* device pages of 16 and of 32 bytes *)
PrpTargets == {[found |-> TRUE, pgsz |-> 4], [found |-> TRUE, pgsz |-> 5]}

PrpScratches == {[ok |-> TRUE, virt |-> 0, dma |-> [hi |-> 0, lo |-> 4096]],
                 [ok |-> TRUE, virt |-> 0, dma |-> [hi |-> 2, lo |-> 4096]]}

InitPrp ==
  /\ pc = [p \in Procs |-> "start"]
  /\ rval = [p \in Procs |-> "EINVAL"]
  /\ loc = [p \in Procs |-> ZeroLoc]
  /\ dma_buffers = [p \in Procs |-> << >>]
  /\ ioctl_cmds = ZeroCmd
  /\ mutex = 0
  /\ done = FALSE
  /\ outstanding = FALSE
  /\ reset_in_progress = FALSE
  /\ block_ioctls = FALSE
  /\ facts \in PrpFactsSet
  /\ nvme_encap_prp_list = 0
  /\ resets = [by \in 0..DrvId |-> << >>]
  /\ ext_resets = 0
  /\ heap = [p \in Procs |-> ZeroHeap]
  /\ user_out = [p \in Procs |-> << >>]
  /\ hist = [p \in Procs |-> ZeroHist]
  /\ drv = ZeroDrv
  /\ pel = ZeroPel
  /\ walk = IdleWalk

MptPrp ==
  \/ MptBegin(1, PrpInputs)
  \/ MptLockInterruptible(1)
  \/ MptCheckReset(1)
  \/ MptCheckBlock(1)
  \/ \E tgt \in PrpTargets, scratch \in PrpScratches : MptEncode(1, tgt, scratch)
  \/ MptPost(1, TRUE)
  \/ MptWaitDone(1)
  \/ MptWaitTimeout(1)
  \/ MptAfterWait(1)
  \/ MptTimeoutReset(1)
  \/ MptDrain(1, TRUE, {})
  \/ MptOutUnlock(1)
  \/ MptOut(1)

NextPrp ==
  \/ FwComplete(TRUE, MPI3_IOCSTATUS_SUCCESS, 0, FALSE)
  \/ MptPrp

SpecPrp == InitPrp /\ [][NextPrp]_vars


(***************************************************************************)
(* mpi3mr_ioctl_process_drv_cmds with the opcodes PELENABLE and UNKNOWN,   *)
(* and the handlers it calls: mpi3mr_app_pel_enable and                    *)
(* mpi3mr_app_pel_abort.  The whole switch runs with ioctl_cmds.mutex      *)
(* held.  An argument in says what the caller passes and what the kernel   *)
(* services do: in.fault ("none", "karg_copy", "no_adapter"), in.nonblock, *)
(* in.opcode, and for PELENABLE in.copy_ok (copy_from_user of pel_enable), *)
(* in.pel_class and in.pel_locale.                                         *)
(***************************************************************************)
MPI3_PEL_CLASS_FAULT == 3
MPI3_PEL_STATUS_SUCCESS == 0

MPI3MR_DRVIOCTL_OPCODE_PELENABLE == "PELENABLE"
MPI3MR_DRVIOCTL_OPCODE_UNKNOWN == "UNKNOWN"
MPI3MR_RESET_FROM_PELABORT_TIMEOUT == "RESET_FROM_PELABORT_TIMEOUT"

MaxDrvCalls == 2

DrvBegin(in) ==
  /\ drv.pc = "start"
  /\ drv.calls < MaxDrvCalls
  /\ drv' = IF in.fault = "karg_copy"
              THEN [ZeroDrv EXCEPT !.pc = "done", !.rval = "EFAULT", !.calls = drv.calls + 1]
            ELSE IF in.fault = "no_adapter"
              THEN [ZeroDrv EXCEPT !.pc = "done", !.rval = "ENODEV", !.calls = drv.calls + 1]
            ELSE [ZeroDrv EXCEPT !.pc = "lock", !.nonblock = in.nonblock,
                                 !.opcode = in.opcode, !.pel_class = in.pel_class,
                                 !.pel_locale = in.pel_locale, !.copy_ok = in.copy_ok,
                                 !.calls = drv.calls + 1]
  /\ UNCHANGED <<pc, rval, loc, dma_buffers, slot_vars, ioc_vars, heap, user_out, hist, pel>>

DrvTryLock ==
  /\ drv.pc = "lock"
  /\ drv.nonblock
  /\ IF mutex = 0
       THEN /\ mutex' = DrvId
            /\ drv' = [drv EXCEPT !.pc = "dispatch"]
       ELSE /\ mutex' = mutex
            /\ drv' = [drv EXCEPT !.pc = "done", !.rval = "EAGAIN"]
  /\ UNCHANGED <<pc, rval, loc, dma_buffers, ioctl_cmds, done, outstanding, ioc_vars, heap,
                 user_out, hist, pel>>

(* Variant of DrvLockInterruptible that does not wait for the mutex. *)
DrvLockInterruptible_NoWait ==
  /\ drv.pc = "lock"
  /\ ~drv.nonblock
  /\ mutex' = DrvId
  /\ drv' = [drv EXCEPT !.pc = "dispatch"]
  /\ UNCHANGED <<pc, rval, loc, dma_buffers, ioctl_cmds, done, outstanding, ioc_vars, heap,
                 user_out, hist, pel>>

DrvLockInterruptible ==
  /\ drv.pc = "lock"
  /\ ~drv.nonblock
  /\ mutex = 0
  /\ mutex' = DrvId
  /\ drv' = [drv EXCEPT !.pc = "dispatch"]
  /\ UNCHANGED <<pc, rval, loc, dma_buffers, ioctl_cmds, done, outstanding, ioc_vars, heap,
                 user_out, hist, pel>>

DrvLockInterrupted ==
  /\ drv.pc = "lock"
  /\ ~drv.nonblock
  /\ mutex # 0
  /\ drv' = [drv EXCEPT !.pc = "done", !.rval = "ERESTARTSYS"]
  /\ UNCHANGED <<pc, rval, loc, dma_buffers, slot_vars, ioc_vars, heap, user_out, hist, pel>>

(* the class and locale in force cover the requested ones *)
PelCovered ==
  pel.class <= drv.pel_class /\ drv.pel_locale \subseteq pel.locale

(* The switch on karg.opcode, and mpi3mr_app_pel_enable up to its return
   or to its call of mpi3mr_app_pel_abort. *)
DrvDispatch ==
  /\ drv.pc = "dispatch"
  /\ drv' =
       IF drv.opcode # MPI3MR_DRVIOCTL_OPCODE_PELENABLE
         THEN [drv EXCEPT !.pc = "unlock", !.rval = "EINVAL"]
       ELSE IF ~drv.copy_ok
         THEN [drv EXCEPT !.pc = "unlock", !.rval = "EFAULT"]
       ELSE IF drv.pel_class > MPI3_PEL_CLASS_FAULT
         THEN [drv EXCEPT !.pc = "unlock", !.rval = "EINVAL"]
       ELSE IF pel.enabled
         THEN IF PelCovered
                THEN [drv EXCEPT !.pc = "unlock", !.rval = "OK"]
                ELSE [drv EXCEPT !.pc = "abort_check",
                                 !.pel_locale = drv.pel_locale \cup pel.locale,
                                 !.pel_class = IF pel.class < drv.pel_class
                                                 THEN pel.class ELSE drv.pel_class]
       ELSE [drv EXCEPT !.pc = "seqnum"]
  /\ UNCHANGED <<pc, rval, loc, dma_buffers, slot_vars, ioc_vars, heap, user_out, hist, pel>>

(* mpi3mr_app_pel_abort: the test of reset_in_progress and block_ioctls *)
PelAbortCheck ==
  /\ drv.pc = "abort_check"
  /\ drv' = IF reset_in_progress \/ block_ioctls
              THEN [drv EXCEPT !.pc = "unlock", !.retval = -1, !.rval = "FAILED"]
              ELSE [drv EXCEPT !.pc = "abort_post"]
  /\ UNCHANGED <<pc, rval, loc, dma_buffers, slot_vars, ioc_vars, heap, user_out, hist, pel>>

(* mpi3mr_app_pel_abort: pel_abort_cmd.mutex is taken, the slot is marked
   pending and the frame posted; post_ok is whether the post succeeds.  A
   failed post leaves by out_unlock and returns into mpi3mr_app_pel_enable. *)
PelAbortPost(post_ok) ==
  /\ drv.pc = "abort_post"
  /\ pel.mutex = 0
  /\ IF MPI3MR_CMD_PENDING \in pel.state
       THEN /\ drv' = [drv EXCEPT !.pc = "unlock", !.retval = -1, !.rval = "FAILED"]
            /\ pel' = pel
     ELSE IF post_ok
       THEN /\ drv' = [drv EXCEPT !.pc = "abort_wait"]
            /\ pel' = [pel EXCEPT !.mutex = DrvId, !.state = {MPI3MR_CMD_PENDING},
                                  !.is_waiting = 1, !.abort_requested = TRUE,
                                  !.done = FALSE, !.outstanding = TRUE]
       ELSE /\ drv' = [drv EXCEPT !.pc = "unlock", !.retval = -1, !.rval = "FAILED"]
            /\ pel' = [pel EXCEPT !.state = {MPI3MR_CMD_NOTUSED}, !.is_waiting = 1,
                                  !.abort_requested = FALSE, !.done = FALSE]
  /\ UNCHANGED <<pc, rval, loc, dma_buffers, slot_vars, ioc_vars, heap, user_out, hist>>

PelAbortWaitDone ==
  /\ drv.pc = "abort_wait"
  /\ pel.done
  /\ drv' = [drv EXCEPT !.pc = "abort_woken"]
  /\ UNCHANGED <<pc, rval, loc, dma_buffers, slot_vars, ioc_vars, heap, user_out, hist, pel>>

PelAbortWaitTimeout ==
  /\ drv.pc = "abort_wait"
  /\ ~pel.done
  /\ drv' = [drv EXCEPT !.pc = "abort_woken"]
  /\ UNCHANGED <<pc, rval, loc, dma_buffers, slot_vars, ioc_vars, heap, user_out, hist, pel>>

(* the tests after the wait: not complete (a reset is requested unless the
   slot was flushed by one), a non-success status, a non-success PEL status *)
PelAbortAfterWait ==
  /\ drv.pc = "abort_woken"
  /\ IF MPI3MR_CMD_COMPLETE \notin pel.state
       THEN /\ pel' = [pel EXCEPT !.is_waiting = 0]
            /\ drv' = [drv EXCEPT !.retval = -1,
                                  !.pc = IF MPI3MR_CMD_RESET \notin pel.state
                                           THEN "abort_reset" ELSE "abort_out"]
       ELSE /\ pel' = pel
            /\ drv' = [drv EXCEPT
                         !.pc = "abort_out",
                         !.retval =
                            IF pel.ioc_status # MPI3_IOCSTATUS_SUCCESS THEN -1
                            ELSE IF /\ MPI3MR_CMD_REPLY_VALID \in pel.state
                                    /\ pel.pe_log_status # MPI3_PEL_STATUS_SUCCESS
                              THEN -1 ELSE 0]
  /\ UNCHANGED <<pc, rval, loc, dma_buffers, slot_vars, ioc_vars, heap, user_out, hist>>

(* the call of mpi3mr_soft_reset_handler on the timeout path *)
PelAbortTimeoutReset ==
  /\ drv.pc = "abort_reset"
  /\ SoftResetHandler(DrvId, MPI3MR_RESET_FROM_PELABORT_TIMEOUT)
  /\ drv' = [drv EXCEPT !.pc = "abort_out"]
  /\ UNCHANGED <<pc, rval, loc, dma_buffers, mutex, reset_in_progress, block_ioctls, facts, walk,
                 nvme_encap_prp_list, ext_resets, heap, user_out, hist>>

(* out_unlock of mpi3mr_app_pel_abort, and the test of its return value in
   mpi3mr_app_pel_enable *)
PelAbortOutUnlock ==
  /\ drv.pc = "abort_out"
  /\ pel' = [pel EXCEPT !.state = {MPI3MR_CMD_NOTUSED}, !.mutex = 0]
  /\ drv' = IF drv.retval # 0
              THEN [drv EXCEPT !.pc = "unlock", !.rval = "FAILED"]
              ELSE [drv EXCEPT !.pc = "seqnum"]
  /\ UNCHANGED <<pc, rval, loc, dma_buffers, slot_vars, ioc_vars, heap, user_out, hist>>

(* the end of mpi3mr_app_pel_enable: the class and locale are recorded and
   mpi3mr_pel_get_seqnum_post is called; seq_ok is whether it returns 0 *)
PelEnableSeqnum(seq_ok) ==
  /\ drv.pc = "seqnum"
  /\ pel' = IF seq_ok
              THEN [pel EXCEPT !.class = drv.pel_class, !.locale = drv.pel_locale,
                               !.enabled = TRUE]
              ELSE [pel EXCEPT !.enabled = FALSE]
  /\ drv' = [drv EXCEPT !.pc = "unlock", !.rval = IF seq_ok THEN "OK" ELSE "FAILED"]
  /\ UNCHANGED <<pc, rval, loc, dma_buffers, slot_vars, ioc_vars, heap, user_out, hist>>

(* mutex_unlock(&mrioc->ioctl_cmds.mutex) and the return; the next
   invocation may then start *)
DrvUnlock ==
  /\ drv.pc = "unlock"
  /\ mutex' = 0
  /\ drv' = [ZeroDrv EXCEPT !.rval = drv.rval, !.calls = drv.calls]
  /\ UNCHANGED <<pc, rval, loc, dma_buffers, ioctl_cmds, done, outstanding, ioc_vars, heap,
                 user_out, hist, pel>>

(* an invocation that returned before taking the mutex *)
DrvReturn ==
  /\ drv.pc = "done"
  /\ drv' = [ZeroDrv EXCEPT !.rval = drv.rval, !.calls = drv.calls]
  /\ UNCHANGED <<pc, rval, loc, dma_buffers, slot_vars, ioc_vars, heap, user_out, hist, pel>>

(* The admin reply handler for host tag MPI3MR_HOSTTAG_PEL_ABORT: the
   pending slot becomes COMPLETE, REPLY_VALID with a reply frame, and the
   waiter is woken. *)
FwCompletePel(reply_valid, ioc_status, pe_log_status) ==
  /\ pel.outstanding
  /\ MPI3MR_CMD_PENDING \in pel.state
  /\ pel' = [pel EXCEPT
               !.state = {MPI3MR_CMD_COMPLETE}
                           \cup (IF reply_valid THEN {MPI3MR_CMD_REPLY_VALID} ELSE {}),
               !.ioc_status = ioc_status,
               !.pe_log_status = pe_log_status,
               !.outstanding = FALSE,
               !.done = IF pel.is_waiting = 1 THEN TRUE ELSE @]
  /\ UNCHANGED <<pc, rval, loc, dma_buffers, slot_vars, ioc_vars, heap, user_out, hist, drv>>

DrvInputs ==
  {[fault |-> f, nonblock |-> nb, opcode |-> MPI3MR_DRVIOCTL_OPCODE_PELENABLE,
    copy_ok |-> TRUE, pel_class |-> 1, pel_locale |-> {1}] :
     f \in {"none", "karg_copy", "no_adapter"}, nb \in BOOLEAN}
  \cup
  {[fault |-> "none", nonblock |-> FALSE, opcode |-> op, copy_ok |-> ck,
    pel_class |-> cl, pel_locale |-> lc] :
     op \in {MPI3MR_DRVIOCTL_OPCODE_PELENABLE, MPI3MR_DRVIOCTL_OPCODE_UNKNOWN},
     ck \in BOOLEAN, cl \in {0, 1, MPI3_PEL_CLASS_FAULT + 1}, lc \in {{1}, {2}}}

PelCompletions ==
  {<<TRUE, MPI3_IOCSTATUS_SUCCESS, MPI3_PEL_STATUS_SUCCESS>>,
   <<TRUE, MPI3_IOCSTATUS_SUCCESS, 1>>, <<FALSE, 1, MPI3_PEL_STATUS_SUCCESS>>}

Drv ==
  \/ \E in \in DrvInputs : DrvBegin(in)
  \/ DrvTryLock
  \/ DrvLockInterruptible
  \/ DrvLockInterrupted
  \/ DrvDispatch
  \/ PelAbortCheck
  \/ \E post_ok \in BOOLEAN : PelAbortPost(post_ok)
  \/ PelAbortWaitDone
  \/ PelAbortWaitTimeout
  \/ PelAbortAfterWait
  \/ PelAbortTimeoutReset
  \/ PelAbortOutUnlock
  \/ \E seq_ok \in BOOLEAN : PelEnableSeqnum(seq_ok)
  \/ DrvUnlock
  \/ DrvReturn
  \/ \E k \in PelCompletions : FwCompletePel(k[1], k[2], k[3])

(***************************************************************************)
(* The two-class specification: one passthrough invocation and the         *)
(* driver-command invocations on the same adapter.                         *)
(***************************************************************************)
NextDrv == Env(ConcCompletions) \/ Mpt(1) \/ Drv

SpecDrv == Init /\ [][NextDrv]_vars


(***************************************************************************)
(* The loop of mpi3mr_build_nvme_prp, pass by pass.  The loop is entered   *)
(* with a transfer of at least one byte, a device page size that is a      *)
(* power of two and a scratch region that passed the alignment test.       *)
(* WalkStep is one pass of "while (length)"; WalkReturn is "return 0" or   *)
(* err_out, which releases the scratch region and returns -1.              *)
(***************************************************************************)
MaxWalkUnits == 12

(* lengths that end inside a device page and on its boundary *)
WalkLengths ==
  {1, MPI3MR_NVME_PRP_SIZE} \cup {k * PrpLenUnit : k \in 1..MaxWalkUnits}
    \cup {k * PrpLenUnit + MPI3MR_NVME_PRP_SIZE : k \in 1..3}

WalkEnv == [dev_pgsz |-> walk.dev_pgsz, prp_page_dma |-> walk.prp_page_dma, facts |-> facts]

InitWalk ==
  /\ pc = [p \in Procs |-> "start"]
  /\ rval = [p \in Procs |-> "EINVAL"]
  /\ loc = [p \in Procs |-> ZeroLoc]
  /\ dma_buffers = [p \in Procs |-> << >>]
  /\ ioctl_cmds = ZeroCmd
  /\ mutex = 0
  /\ done = FALSE
  /\ outstanding = FALSE
  /\ reset_in_progress = FALSE
  /\ block_ioctls = FALSE
  /\ facts \in PrpFactsSet
  /\ nvme_encap_prp_list = 1
  /\ resets = [by \in 0..DrvId |-> << >>]
  /\ ext_resets = 0
  /\ heap = [p \in Procs |-> ZeroHeap]
  /\ user_out = [p \in Procs |-> << >>]
  /\ hist = [p \in Procs |-> ZeroHist]
  /\ drv = ZeroDrv
  /\ pel = ZeroPel
  /\ \E a \in PrpBases, l \in WalkLengths, t \in PrpTargets, sc \in PrpScratches :
        walk = [IdleWalk EXCEPT !.active = TRUE,
                                !.w = PrpWalkInit(a, l),
                                !.dev_pgsz = Pow2(t.pgsz),
                                !.prp_page_dma = sc.dma]

WalkStep ==
  /\ walk.active
  /\ walk.w.status = "run"
  /\ walk' = [walk EXCEPT !.w = PrpStep(walk.w, WalkEnv), !.iterations = @ + 1]
  /\ UNCHANGED <<pc, rval, loc, dma_buffers, slot_vars, reset_in_progress, block_ioctls,
                 facts, nvme_encap_prp_list, resets, ext_resets, heap, user_out, hist,
                 drv, pel>>

WalkReturn ==
  /\ walk.active
  /\ walk.w.status # "run"
  /\ ~walk.returned
  /\ walk' = [walk EXCEPT !.returned = TRUE,
                          !.ret = IF walk.w.status = "ok" THEN 0 ELSE -1]
  /\ nvme_encap_prp_list' = IF walk.w.status = "ok" THEN nvme_encap_prp_list ELSE 0
  /\ UNCHANGED <<pc, rval, loc, dma_buffers, slot_vars, reset_in_progress, block_ioctls,
                 facts, resets, ext_resets, heap, user_out, hist, drv, pel>>

NextWalk == WalkStep \/ WalkReturn

(* the loop runs in the invocation's own thread and waits for nothing *)
SpecWalk == InitWalk /\ [][NextWalk]_vars /\ WF_vars(WalkStep) /\ WF_vars(WalkReturn)


(***************************************************************************)
(* Properties.                                                             *)
(***************************************************************************)

(* the submit/wait window: from the slot being set PENDING to its reset *)
InWindow(p) == pc[p] \in {"wait", "woken", "timeout_reset", "drain", "out_unlock"}

(* C1: under every interleaving of the invocations of one adapter, at most
   one invocation is between setting the slot PENDING and resetting it to
   NOTUSED, and that one holds the mutex.  Checked under Spec. *)
C1_OneInvocationPending ==
  \A p \in Procs :
     InWindow(p) => /\ mutex = p
                    /\ \A q \in Procs : InWindow(q) => q = p

(* one invocation waits with the slot PENDING while another contends for
   the mutex *)
C1_Witness ==
  \E p, q \in Procs :
     /\ p # q
     /\ pc[p] = "wait"
     /\ MPI3MR_CMD_PENDING \in ioctl_cmds.state
     /\ pc[q] = "lock"

(* C2: once an invocation that took the mutex has left the locked region,
   by whichever exit, the slot state is NOTUSED and the mutex is free.
   Checked under SpecOne, which has every exit path. *)
C2_SlotFreeOnReturn ==
  \A p \in Procs :
     (hist[p].acquired /\ pc[p] \in {"out", "done"}) =>
        /\ mutex = 0
        /\ ioctl_cmds.state = {MPI3MR_CMD_NOTUSED}

(* an invocation has returned after the allocation of the reply staging
   record failed, having held the slot PENDING *)
C2_Witness ==
  /\ pc[1] = "done"
  /\ hist[1].acquired
  /\ hist[1].pending
  /\ hist[1].path = "reply_alloc"
  /\ mutex = 0

(* C3: every region of dma_buffers and the sense buffer is released at
   most as often as it was allocated, and exactly as often once the
   invocation has returned, whichever exit it took.  Checked under
   SpecOne. *)
C3_RegionsReleasedOnce ==
  \A p \in Procs :
     /\ Len(heap[p].dma_free) = Len(heap[p].dma)
     /\ \A i \in 1..Len(heap[p].dma) :
           /\ heap[p].dma[i] <= 1
           /\ heap[p].dma_free[i] <= heap[p].dma[i]
     /\ heap[p].sense_free <= heap[p].sense
     /\ pc[p] = "done" =>
           /\ heap[p].dma_free = heap[p].dma
           /\ heap[p].sense_free = heap[p].sense

(* an invocation has returned after dma_alloc_coherent failed part-way
   through the list, and a region allocated before the failure was
   released *)
C3_Witness ==
  /\ pc[1] = "done"
  /\ hist[1].path = "alloc"
  /\ \E i \in 1..Len(heap[1].dma) : heap[1].dma[i] = 1 /\ heap[1].dma_free[i] = 1
  /\ \E i \in 1..Len(heap[1].dma) : heap[1].dma[i] = 0

(* C4: once an invocation has returned, every PRP scratch region it
   allocated has been released.  Checked under SpecOne; the code releases
   the region only at err_out of mpi3mr_build_nvme_prp. *)
C4_ScratchReleased ==
  \A p \in Procs : pc[p] = "done" => heap[p].prp_free = heap[p].prp

(* the wait of p ended by the timeout and no completion was seen *)
TimedOut(p) ==
  /\ hist[p].timed_out
  /\ ~hist[p].completed
  /\ pc[p] \in {"out_unlock", "out", "done"}

(* C5: a wait ends without the timeout only when the completion was
   signalled; an invocation whose wait ended by the timeout with no
   completion returns the failure of the timeout path (-EFAULT) and has
   called mpi3mr_soft_reset_handler exactly once, with
   MPI3MR_RESET_FROM_IOCTL_TIMEOUT; no invocation calls it more than once
   or with another cause.  Checked under Spec. *)
C5_TimeoutEscalatesOnce ==
  \A p \in Procs :
     /\ pc[p] = "woken" => (hist[p].timed_out \/ done)
     /\ Len(resets[p]) <= 1
     /\ \A i \in 1..Len(resets[p]) : resets[p][i] = MPI3MR_RESET_FROM_IOCTL_TIMEOUT
     /\ TimedOut(p) =>
           /\ rval[p] = "EFAULT"
           /\ resets[p] = <<MPI3MR_RESET_FROM_IOCTL_TIMEOUT>>

(* an invocation has returned after its wait timed out *)
C5_Witness ==
  \E p \in Procs :
     /\ pc[p] = "done"
     /\ hist[p].posted = 1
     /\ TimedOut(p)
     /\ resets[p] = <<MPI3MR_RESET_FROM_IOCTL_TIMEOUT>>
     /\ resets[0] = << >>

(* C6: while another invocation holds the mutex, an invocation that asks
   for it moves only to its exit: with -EAGAIN under O_NONBLOCK, and
   otherwise (it sleeps) only with -ERESTARTSYS; in that step the slot,
   the mutex and the completion are left as they are, and the invocation
   has neither set the slot PENDING nor posted a frame.  Checked under
   Spec. *)
C6_BusyOrBlocked ==
  [][\A p \in Procs :
       (pc[p] = "lock" /\ mutex # 0 /\ pc'[p] # "lock") =>
          /\ pc'[p] = "out"
          /\ rval'[p] = IF loc[p].nonblock THEN "EAGAIN" ELSE "ERESTARTSYS"
          /\ UNCHANGED slot_vars
          /\ ~hist'[p].acquired
          /\ ~hist'[p].pending
          /\ hist'[p].posted = 0]_vars

(* a non-blocking invocation was turned away while another was in its
   submit/wait window *)
C6_Witness ==
  \E p, q \in Procs :
     /\ p # q
     /\ pc[p] = "out"
     /\ hist[p].path = "busy"
     /\ rval[p] = "EAGAIN"
     /\ InWindow(q)
     /\ MPI3MR_CMD_PENDING \in ioctl_cmds.state

(* C7: an invocation that holds the mutex and finds reset_in_progress set,
   or block_ioctls set, goes to its exit with -EAGAIN and the mutex
   released, leaving the slot as it is; it has neither set the slot
   PENDING nor posted a frame.  Checked under Spec. *)
C7_UnavailableWithoutPending ==
  [][\A p \in Procs :
       (/\ \/ pc[p] = "check_reset" /\ reset_in_progress
           \/ pc[p] = "check_block" /\ block_ioctls
        /\ pc'[p] # pc[p]) =>
          /\ mutex = p
          /\ mutex' = 0
          /\ pc'[p] = "out"
          /\ rval'[p] = "EAGAIN"
          /\ UNCHANGED <<ioctl_cmds, done, outstanding>>
          /\ ~hist'[p].pending
          /\ hist'[p].posted = 0]_vars

(* one invocation was turned away by a reset in progress and another by
   blocked IOCTLs *)
C7_Witness ==
  \E p, q \in Procs :
     /\ hist[p].path = "reset"
     /\ hist[q].path = "blocked"
     /\ rval[p] = "EAGAIN"
     /\ rval[q] = "EAGAIN"
     /\ pc[q] = "out"
     /\ mutex = 0

(* C8: an invocation whose frame mpi3mr_admin_request_post rejected has
   not waited, goes by out_unlock, returns -EAGAIN, has copied nothing to
   the caller and has not called mpi3mr_soft_reset_handler; after
   out_unlock the slot is NOTUSED and the mutex free.  Checked under
   SpecOne. *)
C8_SubmitFailure ==
  \A p \in Procs :
     hist[p].path = "submit" =>
        /\ pc[p] \in {"out_unlock", "out", "done"}
        /\ rval[p] = "EAGAIN"
        /\ hist[p].posted = 0
        /\ ~hist[p].timed_out
        /\ ~hist[p].completed
        /\ user_out[p] = << >>
        /\ resets[p] = << >>
        /\ pc[p] \in {"out", "done"} =>
              /\ mutex = 0
              /\ ioctl_cmds.state = {MPI3MR_CMD_NOTUSED}

(* an invocation has returned after its frame was rejected *)
C8_Witness ==
  /\ pc[1] = "done"
  /\ hist[1].path = "submit"
  /\ hist[1].pending
  /\ rval[1] = "EAGAIN"

(* p has drained the results of a completion with a non-success
   ioc_status and is about to reset the slot *)
CompletedWithStatus(p) ==
  /\ pc[p] = "out_unlock"
  /\ hist[p].completed
  /\ ioctl_cmds.ioc_status # MPI3_IOCSTATUS_SUCCESS

CopyOutFailed(p) == hist[p].path \in {"reply_copy", "sense_copy", "data_copy"}

(* the length of the reply staging record *)
RecordLen == REPLY_BUF_HDR_SZ + facts.reply_sz

(* what reached the caller's MPI_REPLY buffer *)
ReplyOut(p) == user_out[p][loc[p].c.reply_offset + 1]

(* the record that reached the caller carries what the slot captured: the
   reply frame when there is one, the status and log info otherwise *)
CarriesCaptured(p) ==
  IF MPI3MR_CMD_REPLY_VALID \in ioctl_cmds.state
    THEN /\ ReplyOut(p).kind = MPI3MR_IOCTL_MPI_REPLY_BUFTYPE_ADDRESS
         /\ ReplyOut(p).ioc_status = ioctl_cmds.reply.ioc_status
         /\ ReplyOut(p).ioc_loginfo = ioctl_cmds.reply.ioc_loginfo
    ELSE /\ ReplyOut(p).kind = MPI3MR_IOCTL_MPI_REPLY_BUFTYPE_STATUS
         /\ ReplyOut(p).ioc_status = ioctl_cmds.ioc_status
         /\ ReplyOut(p).ioc_loginfo = ioctl_cmds.ioc_loginfo

(* C9 as stated: after a completion with a non-success status, provided no
   copy to the caller failed, the invocation returns 0, has requested no
   reset, and the caller's MPI_REPLY buffer of non-zero length holds the
   record with the captured status and log info. *)
C9_StatusForwarded ==
  \A p \in Procs :
     (CompletedWithStatus(p) /\ ~CopyOutFailed(p)) =>
        /\ rval[p] = "OK"
        /\ resets[p] = << >>
        /\ HasReplyBuf(loc[p].c, dma_buffers[p]) =>
              /\ ReplyOut(p).len = RecordLen
              /\ CarriesCaptured(p)

(* C9 amended: after a completion with a non-success status, provided the
   staging record was allocated and no copy to the caller failed, the
   invocation returns 0, has requested no reset, and the first
   min(record length, user length) bytes of the record built from the
   captured status and log info were copied to the caller's MPI_REPLY
   buffer of non-zero length.  Checked under SpecOne. *)
C9_StatusForwardedWhenStaged ==
  \A p \in Procs :
     (CompletedWithStatus(p) /\ hist[p].path = "success") =>
        /\ rval[p] = "OK"
        /\ resets[p] = << >>
        /\ HasReplyBuf(loc[p].c, dma_buffers[p]) =>
              /\ ReplyOut(p).len
                   = Min(RecordLen, dma_buffers[p][loc[p].c.reply_offset + 1].user_buf_len)
              /\ CarriesCaptured(p)

(* a command completed with a non-success status and no reply frame, and
   the whole status record reached the caller *)
C9_Witness ==
  /\ CompletedWithStatus(1)
  /\ hist[1].path = "success"
  /\ rval[1] = "OK"
  /\ HasReplyBuf(loc[1].c, dma_buffers[1])
  /\ ReplyOut(1).kind = MPI3MR_IOCTL_MPI_REPLY_BUFTYPE_STATUS
  /\ ReplyOut(1).len = RecordLen
  /\ ReplyOut(1).ioc_status # MPI3_IOCSTATUS_SUCCESS

(* the list has a RAIDMGMT_RESP entry that is not at index 1 or not
   preceded by a RAIDMGMT_CMD entry at index 0 (indexes from 0) *)
RespMisplaced(list) ==
  \E i \in 1..Len(list) :
     /\ list[i].buf_type = BUFTYPE_RAIDMGMT_RESP
     /\ (i # 2 \/ list[1].buf_type # BUFTYPE_RAIDMGMT_CMD)

(* C10: for every buffer list with a misplaced RAIDMGMT_RESP entry the
   invocation leaves the classification with -EINVAL, without taking the
   mutex, setting the slot PENDING or posting a frame.  Checked under
   SpecOne, over every list of up to MaxEntries entries. *)
C10_RespNeedsCmd ==
  \A p \in Procs :
     RespMisplaced(loc[p].buffer_list) =>
        /\ pc[p] = "out"
        /\ rval[p] = "EINVAL"
        /\ hist[p].path = "classify"
        /\ ~hist[p].acquired
        /\ ~hist[p].pending
        /\ hist[p].posted = 0

(* a list with RAIDMGMT_CMD at index 0 and RAIDMGMT_RESP at index 2 was
   rejected *)
C10_Witness ==
  /\ pc[1] = "out"
  /\ rval[1] = "EINVAL"
  /\ Len(loc[1].buffer_list) = 3
  /\ loc[1].buffer_list[1].buf_type = BUFTYPE_RAIDMGMT_CMD
  /\ loc[1].buffer_list[3].buf_type = BUFTYPE_RAIDMGMT_RESP
  /\ RespMisplaced(loc[1].buffer_list)

(* the list has more than one MPI_REPLY entry or more than one
   ERR_RESPONSE entry *)
DuplicateStaging(list) ==
  \E i, j \in 1..Len(list) :
     /\ i < j
     /\ list[i].buf_type = list[j].buf_type
     /\ list[i].buf_type \in {BUFTYPE_MPI_REPLY, BUFTYPE_ERR_RESPONSE}

(* C11: every buffer list with more than one MPI_REPLY entry or more than
   one ERR_RESPONSE entry leaves the classification with -EINVAL, so no
   accepted list has such a duplicate.  Checked under SpecOne; the
   MPI_REPLY and ERR_RESPONSE cases of the switch only record the index. *)
C11_DuplicateStagingRejected ==
  \A p \in Procs :
     DuplicateStaging(loc[p].buffer_list) =>
        /\ pc[p] = "out"
        /\ rval[p] = "EINVAL"
        /\ hist[p].path = "classify"

CountOf(list, t) == Cardinality({i \in 1..Len(list) : list[i].buf_type = t})

(* the list has a RAIDMGMT_CMD entry after index 0, or no RAIDMGMT_CMD
   entry and more than one DATA_IN or more than one DATA_OUT entry, or an
   entry whose type the switch does not name *)
BadPlacement(list) ==
  \/ \E i \in 2..Len(list) : list[i].buf_type = BUFTYPE_RAIDMGMT_CMD
  \/ /\ CountOf(list, BUFTYPE_RAIDMGMT_CMD) = 0
     /\ (CountOf(list, BUFTYPE_DATA_IN) > 1 \/ CountOf(list, BUFTYPE_DATA_OUT) > 1)
  \/ \E i \in 1..Len(list) : list[i].buf_type = BUFTYPE_UNKNOWN

(* C12: every buffer list with a RAIDMGMT_CMD entry after index 0, or
   without RAIDMGMT_CMD and with more than one DATA_IN or DATA_OUT entry,
   or with an entry of unknown type, leaves the classification with
   -EINVAL before the lock; so every accepted list has RAIDMGMT_CMD only
   at index 0 and, without it, at most one DATA_IN and one DATA_OUT.
   Checked under SpecOne. *)
C12_PlacementEnforced ==
  \A p \in Procs :
     BadPlacement(loc[p].buffer_list) =>
        /\ pc[p] = "out"
        /\ rval[p] = "EINVAL"
        /\ hist[p].path = "classify"
        /\ ~hist[p].acquired
        /\ hist[p].posted = 0

(* a list of DATA_IN, DATA_OUT, DATA_IN without RAIDMGMT_CMD was rejected *)
C12_Witness ==
  /\ pc[1] = "out"
  /\ rval[1] = "EINVAL"
  /\ Len(loc[1].buffer_list) = 3
  /\ loc[1].buffer_list[1].buf_type = BUFTYPE_DATA_IN
  /\ loc[1].buffer_list[2].buf_type = BUFTYPE_DATA_OUT
  /\ loc[1].buffer_list[3].buf_type = BUFTYPE_DATA_IN
  /\ BadPlacement(loc[1].buffer_list)

(* the length of the kernel-side memory that the copy to the caller's
   buffer i reads: the driver's sense buffer, the reply staging record, or
   the device region of the buffer *)
RegionLen(p, i) ==
  CASE user_out[p][i].kind = "sense" -> MPI3MR_SENSE_BUF_SZ
    [] user_out[p][i].kind = "data" -> dma_buffers[p][i].kern_buf_len
    [] OTHER -> RecordLen

(* C13: after a completed command, the number of bytes copied to each of the
   caller's buffers exceeds neither the buffer's declared length nor the
   length of the kernel-side memory it is copied from.  Lengths are u32
   values.  Checked under SpecOne. *)
C13_CopyOutBounded ==
  \A p \in Procs :
     (pc[p] = "out_unlock" /\ hist[p].completed) =>
        \A i \in 1..Len(user_out[p]) :
           user_out[p][i].kind # "none" =>
              /\ ~ULess(dma_buffers[p][i].user_buf_len, user_out[p][i].len)
              /\ ~ULess(RegionLen(p, i), user_out[p][i].len)

(* the PRP builder ran for invocation p with a device page size and a
   scratch region *)
PrpBuilt(p) ==
  /\ loc[p].prp.called
  /\ loc[p].prp.dev_pgsz # 0
  /\ loc[p].prp.prp_page_dma # NullAddr

(* the number of device pages the transfer of invocation p touches *)
PrpPages(p) ==
  LET r == loc[p].prp
  IN ((r.dma_addr.lo % r.dev_pgsz) + r.length + r.dev_pgsz - 1) \div r.dev_pgsz

(* the address of the j-th device page of the data buffer, from 1; the
   first is the start address itself *)
PrpPageAddr(p, j) ==
  LET r == loc[p].prp
  IN IF j = 1 THEN r.dma_addr
     ELSE [hi |-> r.dma_addr.hi,
           lo |-> r.dma_addr.lo - (r.dma_addr.lo % r.dev_pgsz) + (j - 1) * r.dev_pgsz]

(* a transfer of exactly two device pages from a page-aligned address *)
TwoPagesAligned(p) ==
  /\ loc[p].prp.called
  /\ loc[p].prp.dev_pgsz # 0
  /\ loc[p].prp.dma_addr.lo % loc[p].prp.dev_pgsz = 0
  /\ loc[p].prp.length = 2 * loc[p].prp.dev_pgsz

(* success, slot 1 the stamped start, slot 2 the stamped second page and
   not a list pointer, nothing in the scratch region *)
TwoSlotsFilled(p) ==
  /\ loc[p].prp.ret = 0
  /\ loc[p].prp.prp1 = Stamp(PrpPageAddr(p, 1), facts)
  /\ loc[p].prp.prp2 = Stamp(PrpPageAddr(p, 2), facts)
  /\ ~loc[p].prp.prp2_is_list
  /\ loc[p].prp.list = << >>

(* C14 as stated: for a transfer of exactly two device pages from a
   page-aligned address the PRP builder returns 0 with slot 1 the stamped
   start address, slot 2 the stamped address of the second page and no
   entry in the scratch region. *)
C14_TwoPages ==
  \A p \in Procs : TwoPagesAligned(p) => TwoSlotsFilled(p)

(* C14 amended: for a transfer of exactly two device pages from a
   page-aligned address, provided the scratch region was allocated and
   neither page address has a bit inside the SGE modifier mask, the PRP
   builder returns 0 with slot 1 the stamped start address, slot 2 the
   stamped address of the second page and no entry in the scratch region.
   Checked under SpecPrp. *)
C14_TwoPagesClearOfMask ==
  \A p \in Procs :
     (/\ TwoPagesAligned(p)
      /\ PrpBuilt(p)
      /\ ~Collides(PrpPageAddr(p, 1), facts)
      /\ ~Collides(PrpPageAddr(p, 2), facts)) => TwoSlotsFilled(p)

(* a two-page transfer was encoded under a modifier that changes the
   addresses, and the request goes on to be posted *)
C14_Witness ==
  /\ pc[1] = "post"
  /\ TwoPagesAligned(1)
  /\ TwoSlotsFilled(1)
  /\ facts.sge_mod_value # 0
  /\ loc[1].prp.prp2 # PrpPageAddr(1, 2)

(* C15: for a transfer over N > 2 device pages with N - 1 entries fitting
   the scratch region, under every SGE modifier, the PRP builder returns 0
   with slot 2 the stamped address of the scratch region and N - 1 entries
   in it, entry k the stamped address of device page k + 1 of the data
   buffer.  Stated for data and scratch addresses that have no bit inside
   the modifier mask.  Checked under SpecPrp. *)
C15_ListOfPages ==
  \A p \in Procs :
     (/\ PrpBuilt(p)
      /\ PrpPages(p) > 2
      /\ (PrpPages(p) - 1) * MPI3MR_NVME_PRP_SIZE <= loc[p].prp.dev_pgsz
      /\ ~Collides(loc[p].prp.dma_addr, facts)
      /\ ~Collides(loc[p].prp.prp_page_dma, facts)) =>
        /\ loc[p].prp.ret = 0
        /\ loc[p].prp.prp2_is_list
        /\ loc[p].prp.prp2 = Stamp(loc[p].prp.prp_page_dma, facts)
        /\ Len(loc[p].prp.list) = PrpPages(p) - 1
        /\ \A k \in 1..(PrpPages(p) - 1) :
              loc[p].prp.list[k] = Stamp(PrpPageAddr(p, k + 1), facts)

(* buffer i of invocation p was copied to the caller in full *)
CopiedOut(p, i) ==
  /\ user_out[p][i].kind = "data"
  /\ user_out[p][i].len = Min(dma_buffers[p][i].kern_buf_len, dma_buffers[p][i].user_buf_len)

(* C16: when, after a completed command, the copy of a DMA_TO_DEVICE buffer
   to the caller fails, the loop goes on: every other DMA_TO_DEVICE buffer
   of the list, before and after the failed one, is copied out with
   min(kern_buf_len, user_buf_len) bytes, and the invocation returns
   -EFAULT.  Checked under SpecOne. *)
C16_DrainGoesOn ==
  \A p \in Procs :
     (pc[p] \in {"out_unlock", "out"} /\ hist[p].path = "data_copy") =>
        /\ rval[p] = "EFAULT"
        /\ hist[p].completed
        /\ \E i \in 1..Len(dma_buffers[p]) : user_out[p][i].kind = "fault"
        /\ \A i \in 1..Len(dma_buffers[p]) :
              dma_buffers[p][i].data_dir = DMA_TO_DEVICE =>
                 user_out[p][i].kind = "fault" \/ CopiedOut(p, i)

(* the copy of the second buffer failed and the third was still copied *)
C16_Witness ==
  /\ pc[1] = "out_unlock"
  /\ hist[1].path = "data_copy"
  /\ Len(dma_buffers[1]) = 3
  /\ user_out[1][2].kind = "fault"
  /\ dma_buffers[1][3].data_dir = DMA_TO_DEVICE
  /\ CopiedOut(1, 3)
  /\ user_out[1][3].len # 0

(* C17: when, after a completed command, the copy of the reply staging
   record or of the sense data to the caller fails, every DMA_TO_DEVICE
   buffer is still copied out before the invocation returns.  Checked under
   SpecOne. *)
C17_StagingFailureGoesOn ==
  \A p \in Procs :
     (pc[p] \in {"out_unlock", "out"} /\ hist[p].path \in {"reply_copy", "sense_copy"}) =>
        \A i \in 1..Len(dma_buffers[p]) :
           (dma_buffers[p][i].data_dir = DMA_TO_DEVICE
              /\ dma_buffers[p][i].kern_buf_len # 0) => CopiedOut(p, i)

(* invocation p is between the lock and its exit with an NVMe-encapsulated
   request whose bits 14-15 of command[0] are both set *)
BadFormat(p) ==
  /\ loc[p].function = FUNCTION_NVME_ENCAPSULATED
  /\ (loc[p].command0 \div 16384) % 4 = 3

(* C18: an NVMe-encapsulated request whose data format, bits 14-15 of
   command[0], is none of PRP, SGL1 and SGL2 is never posted and its slot is
   never PENDING for it; unless it left earlier with -EAGAIN it returns
   -EINVAL, and once it has returned the mutex is free and every mapped
   region has been released once.  Checked under SpecOne. *)
C18_BadFormatRejected ==
  \A p \in Procs :
     /\ BadFormat(p) =>
           /\ pc[p] \in {"lock", "check_reset", "check_block", "encode", "out"}
           /\ ~hist[p].pending
           /\ hist[p].posted = 0
           /\ pc[p] = "out" =>
                 /\ mutex # p
                 /\ hist[p].path \in {"format", "busy", "in_use", "reset", "blocked"}
     /\ hist[p].path = "format" =>
           /\ pc[p] \in {"out", "done"}
           /\ rval[p] = "EINVAL"
           /\ ~hist[p].pending
           /\ hist[p].posted = 0
           /\ MPI3MR_CMD_PENDING \notin ioctl_cmds.state
           /\ mutex # p
           /\ pc[p] = "done" =>
                 /\ heap[p].dma_free = heap[p].dma
                 /\ heap[p].sense_free = heap[p].sense
                 /\ heap[p].prp = 0

(* a request of data format 3 with a mapped data buffer has returned *)
C18_Witness ==
  /\ pc[1] = "done"
  /\ hist[1].path = "format"
  /\ hist[1].acquired
  /\ \E i \in 1..Len(heap[1].dma) : heap[1].dma[i] = 1 /\ heap[1].dma_free[i] = 1

(* C19: an invocation whose wait timed out returns a code that no failed
   copy to or from the caller returns, that is, not -EFAULT.  Checked under
   SpecOne. *)
C19_TimeoutDistinct ==
  \A p \in Procs :
     (hist[p].path = "timeout" /\ pc[p] \in {"out_unlock", "out", "done"}) =>
        rval[p] # "EFAULT"

(* the submit/wait window of the PEL-abort command: from pel_abort_cmd
   being set PENDING to its reset *)
PelWindow == drv.pc \in {"abort_wait", "abort_woken", "abort_reset", "abort_out"}

(* C20 as stated: the passthrough window and the window of the PEL-abort
   command issued through mpi3mr_ioctl_process_drv_cmds do not exclude each
   other, so that they can overlap: while a window of one class is open, an
   invocation of the other class that has reached its lock finds it free. *)
C20_WindowsIndependent ==
  \A p \in Procs :
     /\ (InWindow(p) /\ drv.pc = "lock") => mutex = 0
     /\ (PelWindow /\ pc[p] = "lock") => mutex = 0

(* C20 amended: the PEL-abort command issued through
   mpi3mr_ioctl_process_drv_cmds has its whole window under
   ioctl_cmds.mutex, the lock of the passthrough slot, so the two windows
   never overlap: the two slots are never PENDING together, and a window of
   either class is open only while its invocation holds ioctl_cmds.mutex.
   Checked under SpecDrv. *)
C20_WindowsExclusive ==
  /\ ~(MPI3MR_CMD_PENDING \in ioctl_cmds.state /\ MPI3MR_CMD_PENDING \in pel.state)
  /\ PelWindow => mutex = DrvId
  /\ \A p \in Procs :
        /\ InWindow(p) => mutex = p
        /\ ~(InWindow(p) /\ PelWindow)

(* the PEL-abort command is pending while a passthrough invocation waits
   for ioctl_cmds.mutex *)
C20_Witness ==
  /\ PelWindow
  /\ MPI3MR_CMD_PENDING \in pel.state
  /\ pc[1] = "lock"
  /\ ~loc[1].nonblock
  /\ mutex = DrvId

(* the elements invocation p wrote through the local sgl *)
SglWrites(p) ==
  {i \in 1..Len(loc[p].sgl) : loc[p].sgl[i].field = "sgl"}

(* the length of the memory the element was written to: the request frame,
   or the device region of buffer 0 *)
SglRegionLen(p, i) ==
  IF loc[p].sgl[i].base = "frame"
    THEN MPI3MR_ADMIN_REQ_FRAME_SZ
    ELSE dma_buffers[p][1].kern_buf_len

(* C21: every element mpi3mr_ioctl_build_sgl writes through sgl, a
   zero-length element included, lies inside the memory it is written to:
   the request frame of MPI3MR_ADMIN_REQ_FRAME_SZ bytes without
   RAIDMGMT_CMD, the device region of the RAIDMGMT_CMD buffer with it.
   Checked under SpecOne. *)
C21_SglInsideRegion ==
  \A p \in Procs :
     \A i \in SglWrites(p) :
        loc[p].sgl[i].off + SGE_COMMON_SZ <= SglRegionLen(p, i)

(* the elements invocation p wrote for data buffers, in the order written *)
SglDataWrites(p) ==
  {i \in SglWrites(p) : loc[p].sgl[i].kind = "single"}

(* C23: among the elements mpi3mr_ioctl_build_sgl writes for data buffers,
   the last one carries MPI3_SGE_FLAGS_END_OF_LIST and every earlier one
   carries the default flags only, with and without RAIDMGMT_CMD.
   Checked under SpecOne. *)
C23_OnlyLastEndsList ==
  \A p \in Procs :
     \A i \in SglDataWrites(p) :
        loc[p].sgl[i].flags =
          IF \A j \in SglDataWrites(p) : j <= i THEN SglFlagsLast ELSE SglFlags

(* C23, as the code has it: with RAIDMGMT_CMD the last element written for
   a data buffer carries MPI3_SGE_FLAGS_END_OF_LIST and every earlier one
   the default flags only; without RAIDMGMT_CMD every element written for a
   data buffer carries MPI3_SGE_FLAGS_END_OF_LIST.  Checked under SpecOne. *)
C23_LastEndsListInMgmtMode ==
  \A p \in Procs :
     \A i \in SglDataWrites(p) :
        loc[p].sgl[i].flags =
          IF ~loc[p].c.is_rmcb \/ (\A j \in SglDataWrites(p) : j <= i)
            THEN SglFlagsLast ELSE SglFlags

(* two data buffers without RAIDMGMT_CMD, submitted *)
C23_Witness ==
  \E p \in Procs :
     /\ ~loc[p].c.is_rmcb
     /\ Cardinality(SglDataWrites(p)) = 2
     /\ hist[p].posted > 0

(* C22: mpi3mr_build_nvme_prp never writes more entries to the scratch
   region than the dev_pgsz bytes allocated for it hold
   (dev_pgsz / MPI3MR_NVME_PRP_SIZE), whether it returns 0 or -1.
   Checked under SpecPrp. *)
C22_ListFitsScratch ==
  \A p \in Procs :
     loc[p].prp.called =>
       Len(loc[p].prp.list) * MPI3MR_NVME_PRP_SIZE <= loc[p].prp.dev_pgsz

(* the buffer types whose payload goes from the caller to the device *)
PayloadTypes == {BUFTYPE_DATA_OUT, BUFTYPE_RAIDMGMT_CMD}

(* the buffer types whose payload comes back from the device *)
ResultTypes == {BUFTYPE_DATA_IN, BUFTYPE_RAIDMGMT_RESP}

(* C24: the buffers that carry the caller's payload to the device
   (DATA_OUT and RAIDMGMT_CMD, which the classification loop tags
   DMA_FROM_DEVICE) hold min(kern_buf_len, user_buf_len) bytes of the
   caller's memory once the frame is posted; when copy_from_user fails for
   one of them the frame is never posted and the invocation returns -EFAULT;
   the buffers copied back to the caller after completion are the ones of
   the other direction (DATA_IN and RAIDMGMT_RESP, tagged DMA_TO_DEVICE).
   The tags are compared for the lists the classification loop accepts.
   Checked under SpecOne. *)
C24_PayloadCopiedInBeforePost ==
  \A p \in Procs :
     \A i \in 1..Len(dma_buffers[p]) :
        LET b == dma_buffers[p][i]
            type == loc[p].buffer_list[i].buf_type
            tmplen == Min(b.kern_buf_len, b.user_buf_len)
        IN /\ ~loc[p].c.invalid_be =>
                 /\ (type \in PayloadTypes) = (b.data_dir = DMA_FROM_DEVICE)
                 /\ (type \in ResultTypes) = (b.data_dir = DMA_TO_DEVICE)
           /\ (type \in PayloadTypes /\ hist[p].posted > 0) => b.filled = tmplen
           /\ (type \in PayloadTypes /\ b.kern_buf # 0 /\ b.filled # tmplen) =>
                 /\ hist[p].posted = 0
                 /\ pc[p] = "out"
                 /\ rval[p] = "EFAULT"
           /\ (i <= Len(user_out[p]) /\ user_out[p][i].kind = "data") =>
                 /\ type \in ResultTypes
                 /\ hist[p].completed
                 /\ b.filled = 0

(* a request with a payload buffer and a result buffer has completed: the
   payload was copied in, the result copied back *)
C24_Witness ==
  /\ pc[1] = "out_unlock"
  /\ Len(dma_buffers[1]) >= 2
  /\ loc[1].buffer_list[1].buf_type = BUFTYPE_DATA_OUT
  /\ dma_buffers[1][1].filled # 0
  /\ loc[1].buffer_list[2].buf_type = BUFTYPE_DATA_IN
  /\ Len(user_out[1]) >= 2
  /\ user_out[1][2].kind = "data"
  /\ user_out[1][2].len # 0

(* the addresses the PRP builder has to stamp for invocation p: the address
   of every device page of the transfer, and the address of the scratch
   region when slot 2 is a list pointer *)
PrpRawAddrs(p) ==
  {PrpPageAddr(p, k) : k \in 1..PrpPages(p)}
    \cup (IF PrpPages(p) > 2 THEN {loc[p].prp.prp_page_dma} ELSE {})

(* C25: mpi3mr_build_nvme_prp fails with a collision exactly when one of the
   addresses it stamps has, before the overlay, a bit inside the modifier
   mask: addresses with no bit inside the mask are never rejected, whatever
   the modifier value and whatever was stamped before.
   Checked under SpecPrp. *)
C25_CollisionOnOwnValue ==
  \A p \in Procs :
     PrpBuilt(p) =>
       ((loc[p].prp.ret # 0) = (\E a \in PrpRawAddrs(p) : Collides(a, facts)))

(* C26: the number of bytes of sense data copied to the caller is the
   smaller of the ERR_RESPONSE buffer's user_buf_len and
   MPI3MR_SENSE_BUF_SZ, for every u32 user_buf_len, 2^31 and above
   included; it never exceeds MPI3MR_SENSE_BUF_SZ.  Checked under SpecOne. *)
C26_SenseLenIsMin ==
  \A p \in Procs :
     \A i \in 1..Len(user_out[p]) :
        (pc[p] = "out_unlock" /\ user_out[p][i].kind = "sense") =>
           /\ user_out[p][i].len = Min(dma_buffers[p][i].user_buf_len, MPI3MR_SENSE_BUF_SZ)
           /\ ~ULess(MPI3MR_SENSE_BUF_SZ, user_out[p][i].len)

(* invocation p has called mpi3mr_soft_reset_handler for a timeout *)
TimeoutRequested(p) ==
  \E i \in 1..Len(resets[p]) : resets[p][i] = MPI3MR_RESET_FROM_IOCTL_TIMEOUT

(* invocation p has released none of its device regions nor its sense
   buffer *)
NothingFreed(p) ==
  /\ heap[p].sense_free = 0
  /\ \A i \in 1..Len(heap[p].dma_free) : heap[p].dma_free[i] = 0

(* C27: on the timeout path the steps come in this order: is_waiting is
   cleared; mpi3mr_soft_reset_handler is called, with the lock held and
   nothing released; the slot is set to MPI3MR_CMD_NOTUSED and the lock
   released, after the call and with nothing released; the device regions
   and the sense buffer are released, after the call and after the lock was
   given up.  Checked under Spec. *)
C27_TimeoutOrder ==
  [][\A p \in Procs :
        /\ resets'[p] # resets[p] =>
             /\ ioctl_cmds.is_waiting = 0
             /\ mutex = p /\ mutex' = p
             /\ NothingFreed(p) /\ NothingFreed(p)'
        /\ (hist[p].path = "timeout" /\ mutex = p /\ mutex' # p) =>
             /\ TimeoutRequested(p)
             /\ ioctl_cmds'.state = {MPI3MR_CMD_NOTUSED}
             /\ NothingFreed(p)'
        /\ (hist[p].path = "timeout" /\ heap'[p] # heap[p]) =>
             /\ TimeoutRequested(p)
             /\ mutex # p
             /\ pc[p] = "out"]_vars

(* an invocation timed out with device regions and a sense buffer and has
   returned: the reset was requested and the regions are released *)
C27_Witness ==
  /\ pc[1] = "done"
  /\ hist[1].path = "timeout"
  /\ TimeoutRequested(1)
  /\ \E i \in 1..Len(heap[1].dma) : heap[1].dma[i] = 1 /\ heap[1].dma_free[i] = 1
  /\ heap[1].sense = 1 /\ heap[1].sense_free = 1

(* (raw AND NOT mask) OR value, on the upper 32 bits of the address *)
Overlaid(raw) ==
  [hi |-> BitOr(BitClear(raw.hi, SgeModHi(facts.sge_mod_mask, facts.sge_mod_shift)),
                SgeModHi(facts.sge_mod_value, facts.sge_mod_shift)),
   lo |-> raw.lo]

(* C28: every address mpi3mr_build_nvme_prp and mpi3mr_build_nvme_sgl leave
   in a command they accept (slot 1, slot 2 as data or list pointer, every
   scratch entry, the base_addr of the inline descriptor) is
   (raw AND NOT mask) OR value of the raw address it stands for, under every
   sge_mod_mask, sge_mod_value and sge_mod_shift.  Checked under SpecPrp. *)
C28_AddressesOverlaid ==
  \A p \in Procs :
     /\ (PrpBuilt(p) /\ loc[p].prp.ret = 0) =>
          /\ loc[p].prp.prp1 = Overlaid(PrpPageAddr(p, 1))
          /\ PrpPages(p) = 2 => loc[p].prp.prp2 = Overlaid(PrpPageAddr(p, 2))
          /\ PrpPages(p) > 2 =>
               /\ loc[p].prp.prp2 = Overlaid(loc[p].prp.prp_page_dma)
               /\ \A k \in 1..Len(loc[p].prp.list) :
                     loc[p].prp.list[k] = Overlaid(PrpPageAddr(p, k + 1))
     /\ loc[p].nvme_sgl.written =>
          loc[p].nvme_sgl.base_addr = Overlaid(loc[p].nvme_sgl.raw)

(* a list of entries accepted under a modifier value that changes them *)
C28_Witness ==
  /\ pc[1] = "post"
  /\ PrpBuilt(1)
  /\ loc[1].prp.ret = 0
  /\ facts.sge_mod_value # 0
  /\ Len(loc[1].prp.list) >= 2
  /\ loc[1].prp.list[2] # PrpPageAddr(1, 3)

(* C29: whenever ioctl_cmds.mutex is free, the slot is
   MPI3MR_CMD_NOTUSED, is_sense is false and sensebuf is NULL; so an
   invocation that has just taken the mutex, and has not yet tested the
   slot, does not find it MPI3MR_CMD_PENDING.  Checked under Spec. *)
C29_SlotIdleWhenUnlocked ==
  /\ mutex = 0 =>
       /\ ioctl_cmds.state = {MPI3MR_CMD_NOTUSED}
       /\ ~ioctl_cmds.is_sense
       /\ ioctl_cmds.sensebuf = 0
  /\ \A p \in Procs :
        (pc[p] = "check_reset" /\ mutex = p) =>
           MPI3MR_CMD_PENDING \notin ioctl_cmds.state

(* the first invocation had its command completed and has given the mutex
   up; the second is about to take it *)
C29_Witness ==
  /\ mutex = 0
  /\ pc[1] = "out"
  /\ hist[1].completed
  /\ pc[2] = "lock"

(* C30: an invocation goes on to call mpi3mr_soft_reset_handler only when
   its own wait ran out with the command not terminated: when the test
   after the wait finds the slot marked MPI3MR_CMD_RESET by another reset,
   the invocation does not request a reset of its own (as
   mpi3mr_app_pel_abort does not).  Checked under Spec. *)
C30_NoResetAfterReset ==
  [][\A p \in Procs :
        (pc[p] = "woken" /\ pc'[p] = "timeout_reset") =>
           /\ MPI3MR_CMD_RESET \notin ioctl_cmds.state
           /\ hist[p].timed_out]_vars

(* C31: the loop of mpi3mr_build_nvme_prp ends for every transfer length,
   start address and device page size: every pass either makes length
   smaller, or leaves by err_out, or is the one pass that turns slot 2 into
   the pointer to the scratch list; so the builder returns, with 0 or -1.
   Checked under SpecWalk. *)
C31_WalkTerminates ==
  /\ <>(walk.returned)
  /\ [][walk'.iterations # walk.iterations =>
          \/ walk'.w.length < walk.w.length
          \/ walk'.w.status = "err"
          \/ /\ walk.w.prp_entry = "prp2"
             /\ walk'.w.prp_entry = "list"
             /\ ~walk.w.prp2_is_list /\ walk'.w.prp2_is_list]_vars

(* a walk through slot 1, the switch of slot 2 and several list entries has
   returned *)
C31_Witness ==
  /\ walk.returned
  /\ walk.ret = 0
  /\ walk.w.prp2_is_list
  /\ Len(walk.w.list) >= 3
  /\ walk.iterations = Len(walk.w.list) + 2


=============================================================================
